---- MODULE Spec2Model ----
(***************************************************************************)
(* Model of the change-impact analysis engine of syncrup_server:           *)
(* ImpactAnalyzer.analyzeFileChange (node resolution, the reverse          *)
(* dependency walker, the usage scanner, merge / de-duplication, the       *)
(* non-breaking short-circuit and the severity table) over the graph       *)
(* document that GraphService loads, with the webhook's processing of a    *)
(* push and the addRepo requests on the repository table.                  *)
(*                                                                         *)
(* Strings are sequences of one-character strings, so that replace,        *)
(* toLowerCase, split, startsWith, trim and the extension test are         *)
(* computed character by character as the code computes them.              *)
(***************************************************************************)
EXTENDS Integers, Sequences, FiniteSets, TLC

VARIABLES
    doc,      \* the persisted graph document of the project: [nodes, edges]
    result,   \* the ImpactResult last returned by analyzeFileChange
    locals,   \* the locals of that invocation and which collaborators it ran
    walk,     \* the walker's loop state (findAffectedFiles, one iteration per step)
    sev,      \* an invocation of determineSeverity: its arguments and its result
    stores,   \* the GraphService instances: which are constructed, their nodes and edges
    lastOp,   \* the last GraphService operation: its instance, argument and outcome
    scanRun,  \* an invocation of searchForAffectedFiles: its arguments, the files it
              \* read and the hits it returned
    push,     \* the webhook's processing of one push: the changed files still to
              \* analyze, and the scan records, reports and notifications made
    db,       \* the repository table behind ProjectService and the addRepo
              \* requests in flight
    calls,    \* analyzeFileChange invocations under way side by side: the graph
              \* each one loaded, its arguments and its result
    audit     \* the operations so far: their number, whether the instances' load-
              \* mutate-save cycles were serialized, whether the document was
              \* empty at first, and the graph the mutations give when applied one
              \* after the other to one graph

storeVars == <<stores, lastOp, audit>>

restVars == <<scanRun, push, db, calls>>

vars == <<doc, result, locals, walk, sev, stores, lastOp, audit, scanRun, push, db, calls>>

---------------------------------------------------------------------------
(* Strings                                                                 *)

COLON == ":"
SLASH == "/"
BSLASH == "\\"
SPACE == " "

\* String.prototype.replace(/<from>/g, to) for a one-character pattern.
RECURSIVE ReplaceAll(_, _, _)
ReplaceAll(s, from, to) ==
    IF s = <<>> THEN <<>>
    ELSE <<IF Head(s) = from THEN to ELSE Head(s)>> \o ReplaceAll(Tail(s), from, to)

\* filePath.replace(/\\/g, '/')
ToForwardSlashes(s) == ReplaceAll(s, BSLASH, SLASH)

\* filePath.replace(/\//g, '\\')
ToBackSlashes(s) == ReplaceAll(s, SLASH, BSLASH)

\* The upper-case letters the model's strings use, with their lower case.
LowerOf(c) ==
    CASE c = "X" -> "x"
      [] c = "D" -> "d"
      [] c = "T" -> "t"
      [] OTHER -> c

\* String.prototype.toLowerCase()
RECURSIVE ToLowerCase(_)
ToLowerCase(s) ==
    IF s = <<>> THEN <<>> ELSE <<LowerOf(Head(s))>> \o ToLowerCase(Tail(s))

\* Index of the first occurrence of character c in s, 0 when there is none.
RECURSIVE IndexOf(_, _, _)
IndexOf(s, c, i) ==
    IF i > Len(s) THEN 0
    ELSE IF s[i] = c THEN i
    ELSE IndexOf(s, c, i + 1)

\* const [first, ...rest] = id.split(':'): first
SplitHead(id) ==
    LET k == IndexOf(id, COLON, 1)
    IN  IF k = 0 THEN id ELSE SubSeq(id, 1, k - 1)

\* const [first, ...rest] = id.split(':'); rest.join(':')
SplitRest(id) ==
    LET k == IndexOf(id, COLON, 1)
    IN  IF k = 0 THEN <<>> ELSE SubSeq(id, k + 1, Len(id))

\* String.prototype.startsWith
StartsWith(s, p) == Len(p) <= Len(s) /\ SubSeq(s, 1, Len(p)) = p

\* String.prototype.endsWith, as the anchored extension pattern needs it
EndsWith(s, p) == Len(p) <= Len(s) /\ SubSeq(s, Len(s) - Len(p) + 1, Len(s)) = p

\* String.prototype.trim()
RECURSIVE TrimLeft(_)
TrimLeft(s) == IF s # <<>> /\ Head(s) = SPACE THEN TrimLeft(Tail(s)) ELSE s

RECURSIVE TrimRight(_)
TrimRight(s) ==
    IF s # <<>> /\ s[Len(s)] = SPACE THEN TrimRight(SubSeq(s, 1, Len(s) - 1)) ELSE s

Trim(s) == TrimRight(TrimLeft(s))

\* path.basename (POSIX): trailing slashes dropped, then what follows the last '/'.
RECURSIVE DropTrailingSlashes(_)
DropTrailingSlashes(s) ==
    IF s # <<>> /\ s[Len(s)] = SLASH
    THEN DropTrailingSlashes(SubSeq(s, 1, Len(s) - 1))
    ELSE s

RECURSIVE AfterLastSlash(_)
AfterLastSlash(s) ==
    LET k == IndexOf(s, SLASH, 1)
    IN  IF k = 0 THEN s ELSE AfterLastSlash(SubSeq(s, k + 1, Len(s)))

Basename(s) == AfterLastSlash(DropTrailingSlashes(s))

\* `${repoId}:${path}`
NodeId(repoId, path) == repoId \o <<COLON>> \o path

---------------------------------------------------------------------------
(* Map, as the code uses it: insertion-ordered, a key set again keeps its  *)
(* position and takes the new value.                                       *)

MapHas(m, k) == \E i \in 1..Len(m) : m[i].key = k

\* The entries of m with the value of key k replaced by v
RECURSIVE MapReplace(_, _, _)
MapReplace(m, k, v) ==
    IF m = <<>> THEN <<>>
    ELSE <<IF Head(m).key = k THEN [key |-> k, value |-> v] ELSE Head(m)>>
         \o MapReplace(Tail(m), k, v)

\* A set that leaves the value of a key the map already has
MapSetKeepFirst(m, k, v) ==
    IF MapHas(m, k) THEN m ELSE Append(m, [key |-> k, value |-> v])

\* Map.prototype.set
MapSet(m, k, v) ==
    IF MapHas(m, k)
    THEN MapReplace(m, k, v)
    ELSE Append(m, [key |-> k, value |-> v])

\* new Map(entries): the entries are set one after the other
RECURSIVE MapSetAll(_, _)
MapSetAll(m, entries) ==
    IF entries = <<>> THEN m
    ELSE MapSetAll(MapSet(m, Head(entries).key, Head(entries).value), Tail(entries))

NewMap(entries) == MapSetAll(<<>>, entries)

\* Array.from(map.values())
RECURSIVE MapValues(_)
MapValues(m) == IF m = <<>> THEN <<>> ELSE <<Head(m).value>> \o MapValues(Tail(m))

---------------------------------------------------------------------------
(* GraphService: the part analyzeFileChange uses                           *)

EmptyGraph == [nodes |-> <<>>, edges |-> <<>>]

\* constructor + load: the document's nodes keyed by id, its edges as they are;
\* a project without a document has the empty graph.
\* data.nodes.map(n => [n.id, n])
RECURSIVE NodeEntries(_)
NodeEntries(nodes) ==
    IF nodes = <<>> THEN <<>>
    ELSE <<[key |-> Head(nodes).id, value |-> Head(nodes)]>> \o NodeEntries(Tail(nodes))

LoadGraph(d) ==
    IF d.state = "valid"
    THEN [nodes |-> NewMap(NodeEntries(d.nodes)), edges |-> d.edges]
    ELSE [nodes |-> <<>>, edges |-> <<>>]

\* getGraph
GetGraph(store) == [nodes |-> MapValues(store.nodes), edges |-> store.edges]

\* load throws, and the constructor with it: readFileSync fails on a file that
\* cannot be read, JSON.parse on a text that is no JSON, data.nodes.map on a
\* document without a nodes array
LoadThrows(d) == d.state \in {"unreadable", "badjson", "nonodes"}

\* Map.prototype.delete
MapDelete(m, k) ==
    LET others(e) == e.key # k
    IN  SelectSeq(m, others)

RECURSIVE MapDeleteAll(_, _)
MapDeleteAll(m, ks) ==
    IF ks = <<>> THEN m ELSE MapDeleteAll(MapDelete(m, Head(ks)), Tail(ks))

\* The mutation primitives take the instance's nodes and edges and the persisted
\* document, and give both as they are when the primitive returns.

\* A save that adds to the document what it lacks instead of replacing it
SaveDelta(store, d) ==
    LET old == LoadGraph(d)
        missingNode(e) == ~MapHas(store.nodes, e.key)
        missingEdge(e) == \A i \in 1..Len(store.edges) : store.edges[i] # e
    IN  [state |-> "valid",
         nodes |-> MapValues(store.nodes) \o MapValues(SelectSeq(old.nodes, missingNode)),
         edges |-> store.edges \o SelectSeq(old.edges, missingEdge)]

\* save: the document written, whatever the file held
Save(store, d) ==
    [state |-> "valid", nodes |-> MapValues(store.nodes), edges |-> store.edges]

\* addNode that sets the node whether or not the id is present
AddNodeOverwrite(store, d, node) ==
    [store |-> [store EXCEPT !.nodes = MapSet(store.nodes, node.id, node)], doc |-> d]

\* addNode
AddNode(store, d, node) ==
    [store |-> IF ~MapHas(store.nodes, node.id)
               THEN [store EXCEPT !.nodes = MapSet(store.nodes, node.id, node)]
               ELSE store,
     doc |-> d]

\* addEdge whose duplicate test leaves out the type
AddEdgeIgnoringType(store, d, edge) ==
    LET exists == \E i \in 1..Len(store.edges) :
                     /\ store.edges[i].source = edge.source
                     /\ store.edges[i].target = edge.target
    IN  [store |-> IF ~exists THEN [store EXCEPT !.edges = Append(store.edges, edge)]
                   ELSE store,
         doc |-> d]

\* addEdge
AddEdge(store, d, edge) ==
    LET exists == \E i \in 1..Len(store.edges) :
                     /\ store.edges[i].source = edge.source
                     /\ store.edges[i].target = edge.target
                     /\ store.edges[i].type = edge.type
    IN  [store |-> IF ~exists THEN [store EXCEPT !.edges = Append(store.edges, edge)]
                   ELSE store,
         doc |-> d]

\* clear that does not call save
ClearWithoutSave(store, d) == [store |-> EmptyGraph, doc |-> d]

\* clear
Clear(store, d) == [store |-> EmptyGraph, doc |-> Save(EmptyGraph, d)]

\* node.metadata && node.metadata.repoId === repoId
HasRepoId(node, repoId) == node.metadata.defined /\ node.metadata.repoId = repoId

\* The ids of the map's values that satisfy the filter, in the map's order
RECURSIVE NodesToRemove(_, _)
NodesToRemove(m, repoId) ==
    IF m = <<>> THEN <<>>
    ELSE (IF HasRepoId(Head(m).value, repoId) THEN <<Head(m).value.id>> ELSE <<>>)
         \o NodesToRemove(Tail(m), repoId)

\* removeNodesByRepoId that prunes only the edges leading from a removed node
RemoveNodesByRepoIdSourceOnly(store, d, repoId) ==
    LET nodesToRemove == NodesToRemove(store.nodes, repoId)
        includes(id) == \E i \in 1..Len(nodesToRemove) : nodesToRemove[i] = id
        kept(edge) == ~includes(edge.source)
        after == [nodes |-> MapDeleteAll(store.nodes, nodesToRemove),
                  edges |-> SelectSeq(store.edges, kept)]
    IN  [store |-> after, doc |-> Save(after, d)]

\* removeNodesByRepoId
RemoveNodesByRepoId(store, d, repoId) ==
    LET nodesToRemove == NodesToRemove(store.nodes, repoId)
        includes(id) == \E i \in 1..Len(nodesToRemove) : nodesToRemove[i] = id
        kept(edge) == ~includes(edge.source) /\ ~includes(edge.target)
        after == [nodes |-> MapDeleteAll(store.nodes, nodesToRemove),
                  edges |-> SelectSeq(store.edges, kept)]
    IN  [store |-> after, doc |-> Save(after, d)]

---------------------------------------------------------------------------
(* Node resolution (analyzeFileChange, first part)                         *)

\* The candidates with the path as given tried first
PossibleNodeIdsAsGivenFirst(repoId, filePath) ==
    << NodeId(repoId, filePath),
       NodeId(repoId, ToForwardSlashes(filePath)),
       NodeId(repoId, ToBackSlashes(filePath)) >>

\* possibleNodeIds
PossibleNodeIds(repoId, filePath) ==
    << NodeId(repoId, ToForwardSlashes(filePath)),
       NodeId(repoId, filePath),
       NodeId(repoId, ToBackSlashes(filePath)) >>

\* graph.nodes.find(n => n.id === nodeId) is not undefined
HasNode(graph, nodeId) == \E i \in 1..Len(graph.nodes) : graph.nodes[i].id = nodeId

\* for (const nodeId of possibleNodeIds) { ...; if (changedNode) break }
RECURSIVE FirstNodeAmong(_, _)
FirstNodeAmong(graph, ids) ==
    IF ids = <<>> THEN [found |-> FALSE, id |-> <<>>]
    ELSE IF HasNode(graph, Head(ids)) THEN [found |-> TRUE, id |-> Head(ids)]
    ELSE FirstNodeAmong(graph, Tail(ids))

\* Resolution without the `if (!changedNode) return` exit: the first candidate
\* stands in for a node that was not found
ResolveNodeWithoutExit(graph, repoId, filePath) ==
    LET ids == PossibleNodeIds(repoId, filePath)
    IN  IF FirstNodeAmong(graph, ids).found THEN FirstNodeAmong(graph, ids)
        ELSE [found |-> TRUE, id |-> ids[1]]

ResolveNode(graph, repoId, filePath) ==
    FirstNodeAmong(graph, PossibleNodeIds(repoId, filePath))

---------------------------------------------------------------------------
(* The reverse-dependency walker (findAffectedFiles)                       *)

\* A structural hit carries no context.
NoContext == <<>>

\* The start without `visited.add(changedNodeId)`
WalkStartUnseeded(changedNodeId) ==
    [queue |-> <<changedNodeId>>, visited |-> {},
     affected |-> <<>>, pushed |-> <<changedNodeId>>]

\* Before the loop: queue = [changedNodeId], visited = {changedNodeId}.
\* pushed lists every id put on the queue, in order.
WalkStart(changedNodeId) ==
    [queue |-> <<changedNodeId>>, visited |-> {changedNodeId},
     affected |-> <<>>, pushed |-> <<changedNodeId>>]

\* The edge body without `if (edgeRepoId !== sourceRepoId)`
VisitEdgeAnyRepo(st, edge, changedNodeId, sourceRepoId) ==
    IF edge.source \in st.visited THEN st
    ELSE [queue |-> Append(st.queue, edge.source),
          visited |-> st.visited \cup {edge.source},
          pushed |-> Append(st.pushed, edge.source),
          affected |-> Append(st.affected,
                          [repoId |-> SplitHead(edge.source),
                           filePath |-> SplitRest(edge.source),
                           reason |-> [kind |-> "Imports", what |-> Basename(changedNodeId)],
                           context |-> NoContext])]

\* Body of `for (const edge of dependentEdges)` for one edge
VisitEdge(st, edge, changedNodeId, sourceRepoId) ==
    IF edge.source \in st.visited THEN st
    ELSE LET edgeRepoId == SplitHead(edge.source)
             edgeFilePath == SplitRest(edge.source)
             hit == [repoId |-> edgeRepoId, filePath |-> edgeFilePath,
                     reason |-> [kind |-> "Imports", what |-> Basename(changedNodeId)],
                     context |-> NoContext]
         IN  [queue |-> Append(st.queue, edge.source),
              visited |-> st.visited \cup {edge.source},
              pushed |-> Append(st.pushed, edge.source),
              affected |-> IF edgeRepoId # sourceRepoId
                           THEN Append(st.affected, hit)
                           ELSE st.affected]

RECURSIVE VisitEdges(_, _, _, _)
VisitEdges(st, es, changedNodeId, sourceRepoId) ==
    IF es = <<>> THEN st
    ELSE VisitEdges(VisitEdge(st, Head(es), changedNodeId, sourceRepoId),
                    Tail(es), changedNodeId, sourceRepoId)

\* The filter without `e.type === 'IMPORTS'`
DependentEdgesAnyType(graph, currentNodeId) ==
    LET isDependent(e) == e.target = currentNodeId
    IN  SelectSeq(graph.edges, isDependent)

\* graph.edges.filter(e => e.target === currentNodeId && e.type === 'IMPORTS')
DependentEdges(graph, currentNodeId) ==
    LET isDependent(e) == e.target = currentNodeId /\ e.type = "IMPORTS"
    IN  SelectSeq(graph.edges, isDependent)

\* One iteration of `while (queue.length > 0)`
WalkIteration(graph, st, changedNodeId, sourceRepoId) ==
    LET currentNodeId == Head(st.queue)
        shifted == [st EXCEPT !.queue = Tail(st.queue)]
    IN  VisitEdges(shifted, DependentEdges(graph, currentNodeId),
                   changedNodeId, sourceRepoId)

RECURSIVE WalkLoop(_, _, _, _)
WalkLoop(graph, st, changedNodeId, sourceRepoId) ==
    IF st.queue = <<>> THEN st
    ELSE WalkLoop(graph, WalkIteration(graph, st, changedNodeId, sourceRepoId),
                  changedNodeId, sourceRepoId)

FindAffectedFiles(graph, changedNodeId, sourceRepoId) ==
    WalkLoop(graph, WalkStart(changedNodeId), changedNodeId, sourceRepoId).affected

---------------------------------------------------------------------------
(* Severity (determineSeverity)                                            *)

\* The table with its thresholds inclusive (>= for >)
DetermineSeverityInclusive(affectedCount, isBreaking) ==
    IF isBreaking /\ affectedCount >= 5 THEN "CRITICAL"
    ELSE IF isBreaking /\ affectedCount >= 0 THEN "HIGH"
    ELSE IF affectedCount >= 10 THEN "HIGH"
    ELSE IF affectedCount >= 5 THEN "MEDIUM"
    ELSE "LOW"

\* The table with the rows on the count alone tested before the isBreaking rows
DetermineSeverityCountFirst(affectedCount, isBreaking) ==
    IF affectedCount > 10 THEN "HIGH"
    ELSE IF affectedCount > 5 THEN "MEDIUM"
    ELSE IF isBreaking /\ affectedCount > 5 THEN "CRITICAL"
    ELSE IF isBreaking /\ affectedCount > 0 THEN "HIGH"
    ELSE "LOW"

DetermineSeverity(affectedCount, isBreaking) ==
    IF isBreaking /\ affectedCount > 5 THEN "CRITICAL"
    ELSE IF isBreaking /\ affectedCount > 0 THEN "HIGH"
    ELSE IF affectedCount > 10 THEN "HIGH"
    ELSE IF affectedCount > 5 THEN "MEDIUM"
    ELSE "LOW"

---------------------------------------------------------------------------
(* Merge and de-duplication (analyzeFileChange, "Remove duplicates")       *)

\* The key without `.toLowerCase()`
DedupKeyCaseSensitive(f) == NodeId(f.repoId, ToForwardSlashes(f.filePath))

\* `${f.repoId}:${f.filePath.replace(/\\/g, '/').toLowerCase()}`
DedupKey(f) == NodeId(f.repoId, ToLowerCase(ToForwardSlashes(f.filePath)))

\* allAffectedFiles.map(f => [key(f), f])
RECURSIVE HitEntries(_)
HitEntries(all) ==
    IF all = <<>> THEN <<>>
    ELSE <<[key |-> DedupKey(Head(all)), value |-> Head(all)]>> \o HitEntries(Tail(all))

\* Array.from(new Map(allAffectedFiles.map(f => [key(f), f])).values())
UniqueAffectedFiles(all) == MapValues(NewMap(HitEntries(all)))

---------------------------------------------------------------------------
(* The usage scanner (searchForAffectedFiles)                              *)
(*                                                                         *)
(* The working copies on disk are a function from the paths that exist to  *)
(* [readable, lines]; a line is [text, uses], uses being the identifiers   *)
(* whose pattern (the escaped identifier, with \b on its word-character    *)
(* ends) matches the line.                                                 *)

\* const limit = 500
ScanLimit == 500

Min(a, b) == IF a < b THEN a ELSE b
Max(a, b) == IF a > b THEN a ELSE b

\* changedFunctions.map(f => f.trim())
RECURSIVE TrimAll(_)
TrimAll(fs) == IF fs = <<>> THEN <<>> ELSE <<Trim(Head(fs))>> \o TrimAll(Tail(fs))

\* changedFunctions.map(f => f.trim()).filter(f => f.length > 2)
FunctionList(changedFunctions) ==
    LET longEnough(f) == Len(f) > 2
    IN  SelectSeq(TrimAll(changedFunctions), longEnough)

\* n.id.match(/\.(ts|tsx|js|jsx)$/)
CodeExtensions ==
    { <<".", "t", "s">>, <<".", "t", "s", "x">>, <<".", "j", "s">>, <<".", "j", "s", "x">> }

HasCodeExtension(id) == \E e \in CodeExtensions : EndsWith(id, e)

\* graph.nodes.filter(n => n.type === 'FILE' && !n.id.startsWith(sourceRepoId) && ...)
OtherRepoFiles(graph, sourceRepoId) ==
    LET isCandidate(n) ==
            /\ n.type = "FILE"
            /\ ~StartsWith(n.id, sourceRepoId)
            /\ HasCodeExtension(n.id)
    IN  SelectSeq(graph.nodes, isCandidate)

\* path.join(process.cwd(), 'repos', fileRepoId, <path with both separators set to path.sep>),
\* relative to the repos directory, POSIX
DiskPath(fileRepoId, filePathStr) ==
    fileRepoId \o <<SLASH>> \o ToForwardSlashes(filePathStr)

\* regex.test(lines[i]) for the pattern built from fn (i is 1-based here)
LineMatches(lines, i, fn) == fn \in lines[i].uses

\* The first line i that matches fn and whose usage `${fn} (line ${i})` is not in
\* addedUsagesForFile; 0 when the line loop ends without a push.
RECURSIVE FirstNewUsage(_, _, _, _)
FirstNewUsage(lines, fn, added, i) ==
    IF i > Len(lines) THEN 0
    ELSE IF LineMatches(lines, i, fn) /\ <<fn, i>> \notin added THEN i
    ELSE FirstNewUsage(lines, fn, added, i + 1)

\* The snippet's lines num..last: `${marker}${originalLineNum}: ${l}`
RECURSIVE SnippetLines(_, _, _, _)
SnippetLines(lines, num, last, m) ==
    IF num > last THEN <<>>
    ELSE <<[marker |-> (num = m), num |-> num, text |-> lines[num].text]>>
         \o SnippetLines(lines, num + 1, last, m)

\* lines.slice(startLine, endLine + 1).map(...).join('\n'), m the 1-based matched line
ContextSnippet(lines, m) ==
    SnippetLines(lines, Max(1, m - 2), Min(Len(lines), m + 2), m)

\* `for (const fn of functionList)` over one file's lines
RECURSIVE ScanFunctions(_, _, _, _, _, _)
ScanFunctions(fns, lines, added, hits, fileRepoId, filePathStr) ==
    IF fns = <<>> THEN hits
    ELSE LET fn == Head(fns)
             m == FirstNewUsage(lines, fn, added, 1)
         IN  IF m = 0
             THEN ScanFunctions(Tail(fns), lines, added, hits, fileRepoId, filePathStr)
             ELSE ScanFunctions(Tail(fns), lines, added \cup {<<fn, m>>},
                     Append(hits,
                        [repoId |-> fileRepoId,
                         filePath |-> ToForwardSlashes(filePathStr),
                         reason |-> [kind |-> "Uses modified function", what |-> fn],
                         context |-> ContextSnippet(lines, m)]),
                     fileRepoId, filePathStr)

\* Body of `for (const file of otherRepoFiles.slice(0, limit))` after the
\* processedFiles test: the hits of one file; none when the file does not exist
\* or reading it throws.
ScanFile(file, functionList, disk) ==
    LET fileRepoId == SplitHead(file.id)
        filePathStr == SplitRest(file.id)
        absoluteFilePath == DiskPath(fileRepoId, filePathStr)
    IN  IF absoluteFilePath \notin DOMAIN disk THEN <<>>
        ELSE IF ~disk[absoluteFilePath].readable THEN <<>>
        ELSE ScanFunctions(functionList, disk[absoluteFilePath].lines, {}, <<>>,
                           fileRepoId, filePathStr)

RECURSIVE ScanFiles(_, _, _, _, _)
ScanFiles(files, processedFiles, affectedFiles, functionList, disk) ==
    IF files = <<>> THEN affectedFiles
    ELSE LET file == Head(files)
             normalizedId == ToLowerCase(ToForwardSlashes(file.id))
         IN  IF normalizedId \in processedFiles
             THEN ScanFiles(Tail(files), processedFiles, affectedFiles, functionList, disk)
             ELSE ScanFiles(Tail(files), processedFiles \cup {normalizedId},
                            affectedFiles \o ScanFile(file, functionList, disk),
                            functionList, disk)

SearchForAffectedFiles(graph, sourceRepoId, changedFunctions, disk) ==
    LET functionList == FunctionList(changedFunctions)
        otherRepoFiles == OtherRepoFiles(graph, sourceRepoId)
    IN  IF functionList = <<>> THEN <<>>
        ELSE ScanFiles(SubSeq(otherRepoFiles, 1, Min(ScanLimit, Len(otherRepoFiles))),
                       {}, <<>>, functionList, disk)

\* The files of `otherRepoFiles.slice(0, limit)` that get past the
\* processedFiles test, in order: those the loop body goes on to open
RECURSIVE OpenedFiles(_, _)
OpenedFiles(files, processedFiles) ==
    IF files = <<>> THEN <<>>
    ELSE LET normalizedId == ToLowerCase(ToForwardSlashes(Head(files).id))
         IN  IF normalizedId \in processedFiles
             THEN OpenedFiles(Tail(files), processedFiles)
             ELSE <<Head(files)>>
                  \o OpenedFiles(Tail(files), processedFiles \cup {normalizedId})

\* The files one call of searchForAffectedFiles opens; none after the early
\* return on an empty functionList
ScannedFiles(graph, sourceRepoId, changedFunctions) ==
    LET otherRepoFiles == OtherRepoFiles(graph, sourceRepoId)
    IN  IF FunctionList(changedFunctions) = <<>> THEN <<>>
        ELSE OpenedFiles(SubSeq(otherRepoFiles, 1, Min(ScanLimit, Len(otherRepoFiles))), {})

---------------------------------------------------------------------------
(* analyzeFileChange                                                       *)
(*                                                                         *)
(* An optional content is [defined, text]; the classifier's answer is      *)
(* [kind, isBreaking, explanation, changedFunctions]: kind "throws" (the   *)
(* call rejects), "nojson" (no {...} in the text), "badjson" (JSON.parse   *)
(* throws) or "json" (an object; a field it lacks is "undefined", "" or    *)
(* [defined |-> FALSE]). changedFunctions is [defined, shape, items]: shape *)
(* "list" (an array of strings), "string" (a string, items its characters) *)
(* or "nonstrings" (an array whose elements are no strings, items their    *)
(* texts). The timestamp of a result is left out.                          *)

ProjectId == "p1"

Truthy(content) == content.defined /\ content.text # ""

NoDiff == [present |-> FALSE, oldContent |-> "", newContent |-> ""]

\* createEmptyResult
CreateEmptyResult(projectId, repoId, filePath) ==
    [status |-> "returned",
     projectId |-> projectId,
     changedFile |-> filePath,
     changedRepo |-> repoId,
     affectedFiles |-> <<>>,
     isBreaking |-> FALSE,
     severity |-> "LOW",
     explanation |-> "File not found in dependency graph",
     diff |-> NoDiff]

\* The defaults before `if (oldContent && newContent)`
NotClassified ==
    [isBreaking |-> FALSE, explanation |-> "File modified", semantic |-> <<>>,
     ranClassifier |-> FALSE, ranScanner |-> FALSE]

\* searchForAffectedFiles throws a TypeError before it scans: `changedFunctions.join`
\* is no function of a string, `f.trim` none of an element that is no string
ScannerThrows(cf) == cf.shape # "list"

\* The classification without the `if (oldContent && newContent)` guard
ClassifyChangeUnguarded(bothContents, ai, graph, repoId, disk) ==
    IF ai.kind # "json"
    THEN [NotClassified EXCEPT !.ranClassifier = TRUE]
    ELSE [isBreaking |-> (ai.isBreaking = "true"),
          explanation |-> ai.explanation,
          semantic |-> <<>>,
          ranClassifier |-> TRUE,
          ranScanner |-> Len(ai.changedFunctions.items) > 0]

\* `if (oldContent && newContent) { try { ... } catch { } }`: isBreaking and
\* explanation are assigned before the scanner is called, and stay assigned when
\* it throws into the catch
ClassifyChange(bothContents, ai, graph, repoId, disk) ==
    IF ~bothContents THEN NotClassified
    ELSE IF ai.kind # "json"
    THEN [NotClassified EXCEPT !.ranClassifier = TRUE]
    ELSE LET changedFunctions ==
                 IF ai.changedFunctions.defined THEN ai.changedFunctions.items ELSE <<>>
             scan == Len(changedFunctions) > 0
         IN  [isBreaking |-> (ai.isBreaking = "true"),
              explanation |-> IF ai.explanation # "" THEN ai.explanation
                              ELSE "Analyzed by AI",
              semantic |-> IF scan /\ ~ScannerThrows(ai.changedFunctions)
                           THEN SearchForAffectedFiles(graph, repoId, changedFunctions, disk)
                           ELSE <<>>,
              ranClassifier |-> TRUE,
              ranScanner |-> scan]

\* The returns after the merge, without the `if (!isBreaking)` return
BuildResultWithoutShortCircuit(projectId, repoId, filePath, oldContent, newContent, cls, uniqueAffectedFiles) ==
    [status |-> "returned",
     projectId |-> projectId,
     changedFile |-> filePath,
     changedRepo |-> repoId,
     affectedFiles |-> uniqueAffectedFiles,
     isBreaking |-> cls.isBreaking,
     severity |-> DetermineSeverity(Len(uniqueAffectedFiles), cls.isBreaking),
     explanation |-> cls.explanation,
     diff |-> IF Truthy(oldContent) /\ Truthy(newContent)
              THEN [present |-> TRUE, oldContent |-> oldContent.text,
                    newContent |-> newContent.text]
              ELSE NoDiff]

\* The two returns after the merge
BuildResult(projectId, repoId, filePath, oldContent, newContent, cls, uniqueAffectedFiles) ==
    IF ~cls.isBreaking
    THEN [status |-> "returned",
          projectId |-> projectId,
          changedFile |-> filePath,
          changedRepo |-> repoId,
          affectedFiles |-> <<>>,
          isBreaking |-> cls.isBreaking,
          severity |-> "LOW",
          explanation |-> IF cls.explanation # "" THEN cls.explanation
                          ELSE "Non-breaking change detected",
          diff |-> NoDiff]
    ELSE [status |-> "returned",
          projectId |-> projectId,
          changedFile |-> filePath,
          changedRepo |-> repoId,
          affectedFiles |-> uniqueAffectedFiles,
          isBreaking |-> cls.isBreaking,
          severity |-> DetermineSeverity(Len(uniqueAffectedFiles), cls.isBreaking),
          explanation |-> cls.explanation,
          diff |-> IF Truthy(oldContent) /\ Truthy(newContent)
                   THEN [present |-> TRUE, oldContent |-> oldContent.text,
                         newContent |-> newContent.text]
                   ELSE NoDiff]

AiNotCalled ==
    [kind |-> "notcalled", isBreaking |-> "undefined", explanation |-> "",
     changedFunctions |-> [defined |-> FALSE, shape |-> "list", items |-> <<>>]]

NoDisk == <<>>

\* The promise of analyzeFileChange rejects: `new GraphService(projectId)` threw
Rejected == [status |-> "threw"]

\* The whole of analyzeFileChange on the inputs and the collaborators' answers:
\* the result, and the locals the claims speak of.
AnalyzeFileChange(d, repoId, filePath, oldContent, newContent, ai, disk) ==
    LET graph == GetGraph(LoadGraph(d))
        changed == ResolveNode(graph, repoId, filePath)
    IN  IF LoadThrows(d)
        THEN [result |-> Rejected,
              found |-> FALSE, changedNodeId |-> <<>>,
              graphAffectedFiles |-> <<>>, semanticAffectedFiles |-> <<>>,
              ranWalker |-> FALSE, ranClassifier |-> FALSE, ranScanner |-> FALSE,
              answer |-> AiNotCalled]
        ELSE IF ~changed.found
        THEN [result |-> CreateEmptyResult(ProjectId, repoId, filePath),
              found |-> FALSE, changedNodeId |-> <<>>,
              graphAffectedFiles |-> <<>>, semanticAffectedFiles |-> <<>>,
              ranWalker |-> FALSE, ranClassifier |-> FALSE, ranScanner |-> FALSE,
              answer |-> AiNotCalled]
        ELSE LET graphAffectedFiles == FindAffectedFiles(graph, changed.id, repoId)
                 cls == ClassifyChange(Truthy(oldContent) /\ Truthy(newContent),
                                       ai, graph, repoId, disk)
                 allAffectedFiles == graphAffectedFiles \o cls.semantic
                 uniqueAffectedFiles == UniqueAffectedFiles(allAffectedFiles)
             IN  [result |-> BuildResult(ProjectId, repoId, filePath, oldContent,
                                         newContent, cls, uniqueAffectedFiles),
                  found |-> TRUE, changedNodeId |-> changed.id,
                  graphAffectedFiles |-> graphAffectedFiles,
                  semanticAffectedFiles |-> cls.semantic,
                  ranWalker |-> TRUE, ranClassifier |-> cls.ranClassifier,
                  ranScanner |-> cls.ranScanner,
                  answer |-> IF cls.ranClassifier THEN ai ELSE AiNotCalled]

---------------------------------------------------------------------------
(* The documents, inputs and collaborator answers the model draws from     *)

\* Longest edge list of a drawn document
MaxEdges == 2
\* Most importers of the changed file in a star-shaped document
MaxFan == 11
\* Largest affectedCount handed to determineSeverity on its own
MaxCount == 60
\* Most mutations and saves of the GraphService instances in one run
MaxOps == 3

RepoA == <<"A">>
RepoB == <<"B">>

TsExt == <<".", "t", "s">>
PathT == <<"t">> \o TsExt
PathM == <<"m">> \o TsExt
PathX == <<"d", "/", "x">> \o TsExt
PathXBack == <<"d", "\\", "x">> \o TsExt
PathXUpper == <<"D", "\\", "X">> \o TsExt
PathQ == <<"q">> \o TsExt
PathZ == <<"z">> \o TsExt

\* The four separator spellings of one two-separator path
PathFF == <<"a", "/", "b", "/", "c">>
PathFB == <<"a", "/", "b", "\\", "c">>
PathBF == <<"a", "\\", "b", "/", "c">>
PathBB == <<"a", "\\", "b", "\\", "c">>
SeparatorVariants == {PathFF, PathFB, PathBF, PathBB}

IdT == NodeId(RepoA, PathT)
IdM == NodeId(RepoA, PathM)
IdX == NodeId(RepoB, PathX)
IdXUpper == NodeId(RepoB, PathXUpper)
IdQ == NodeId(<<"C">>, PathQ)

FileNode(id) == [id |-> id, type |-> "FILE"]
Imports(s, t) == [source |-> s, target |-> t, type |-> "IMPORTS"]
Calls(s, t) == [source |-> s, target |-> t, type |-> "CALLS"]

SeqsUpTo(S, n) == UNION { [1..k -> S] : k \in 0..n }

RECURSIVE SetToSeq(_)
SetToSeq(S) ==
    IF S = {} THEN <<>>
    ELSE LET x == CHOOSE y \in S : TRUE IN <<x>> \o SetToSeq(S \ {x})

ValidDoc(nodes, edges) == [state |-> "valid", nodes |-> nodes, edges |-> edges]
MissingDoc == [state |-> "missing", nodes |-> <<>>, edges |-> <<>>]

\* Documents that cannot be loaded
UnreadableDoc == [state |-> "unreadable", nodes |-> <<>>, edges |-> <<>>]
BadJsonDoc == [state |-> "badjson", nodes |-> <<>>, edges |-> <<>>]
NoNodesDoc == [state |-> "nonodes", nodes |-> <<>>, edges |-> <<>>]

\* Small graphs: a node list and any edge list of at most MaxEdges edges, among
\* them chains through the source repository, cycles through the changed file,
\* a self loop, a non-IMPORTS edge and an edge from an id that is no node.
EdgeUniverse ==
    { Imports(IdM, IdT), Imports(IdX, IdT), Imports(IdXUpper, IdT), Imports(IdX, IdM),
      Imports(IdT, IdX), Imports(IdT, IdM), Imports(IdT, IdT), Imports(IdQ, IdT),
      Calls(IdX, IdT) }

NodeLists ==
    { <<FileNode(IdT)>>,
      <<FileNode(IdT), FileNode(IdM), FileNode(IdX), FileNode(IdXUpper)>>,
      <<FileNode(IdXUpper), FileNode(IdX), FileNode(IdM), FileNode(IdT)>> }

SmallDocs == { ValidDoc(ns, es) : ns \in NodeLists, es \in SeqsUpTo(EdgeUniverse, MaxEdges) }

\* Documents whose nodes are spellings of one path, for node resolution
VariantDocs ==
    { ValidDoc(SetToSeq({ FileNode(NodeId(RepoA, p)) : p \in ps }), <<>>) :
        ps \in SUBSET SeparatorVariants }

\* Star-shaped documents: k files of another repository import the changed file
FanChars == <<"a", "b", "c", "e", "f", "g", "h", "i", "j", "k", "l", "n", "o", "p">>
FanId(i) == NodeId(RepoB, <<FanChars[i]>> \o TsExt)
RECURSIVE FanNodes(_)
FanNodes(k) == IF k = 0 THEN <<>> ELSE Append(FanNodes(k - 1), FileNode(FanId(k)))
RECURSIVE FanEdges(_)
FanEdges(k) == IF k = 0 THEN <<>> ELSE Append(FanEdges(k - 1), Imports(FanId(k), IdT))
FanDoc(k) == ValidDoc(<<FileNode(IdT)>> \o FanNodes(k), FanEdges(k))
FanDocs == { FanDoc(k) : k \in 0..MaxFan }

Docs == SmallDocs \cup FanDocs \cup {MissingDoc, UnreadableDoc, BadJsonDoc, NoNodesDoc}

\* The changed files asked about: <<repoId, filePath>>
Changes == { <<RepoA, PathT>>, <<RepoB, PathX>>, <<RepoB, PathXBack>>, <<RepoA, PathZ>> }
VariantChanges == { <<RepoA, p>> : p \in SeparatorVariants } \cup { <<RepoB, PathFF>> }

Undefined == [defined |-> FALSE, text |-> ""]
Content(t) == [defined |-> TRUE, text |-> t]
OldContents == {Undefined, Content(""), Content("old")}
NewContents == {Undefined, Content("new")}

Get == <<"g", "e", "t">>
Put == <<"p", "u", "t">>
ShortName == <<"i", "d">>
GetPadded == <<" ", "g", "e", "t", " ">>
\* A changedFunctions that is the string "getAll", and the number 42 as the
\* element of one that is [42]
GetAll == <<"g", "e", "t", "A", "l", "l">>
FortyTwo == <<"4", "2">>

FunctionLists ==
    { [defined |-> FALSE, shape |-> "list", items |-> <<>>],
      [defined |-> TRUE, shape |-> "list", items |-> <<>>],
      [defined |-> TRUE, shape |-> "list", items |-> <<ShortName>>],
      [defined |-> TRUE, shape |-> "list", items |-> <<Get>>],
      [defined |-> TRUE, shape |-> "list", items |-> <<GetPadded, ShortName, Put>>],
      [defined |-> TRUE, shape |-> "string", items |-> GetAll],
      [defined |-> TRUE, shape |-> "nonstrings", items |-> <<FortyTwo>>] }

AiFailure(kind) ==
    [kind |-> kind, isBreaking |-> "undefined", explanation |-> "",
     changedFunctions |-> [defined |-> FALSE, shape |-> "list", items |-> <<>>]]

AiAnswers ==
    { AiFailure(k) : k \in {"throws", "nojson", "badjson"} }
    \cup { [kind |-> "json", isBreaking |-> b, explanation |-> "why", changedFunctions |-> f] :
             b \in {"true", "false", "undefined"}, f \in FunctionLists }
    \cup { [kind |-> "json", isBreaking |-> b, explanation |-> "",
            changedFunctions |-> [defined |-> TRUE, shape |-> "list", items |-> <<>>]] :
             b \in {"true", "false"} }

Line(text, uses) == [text |-> text, uses |-> uses]
File(lines) == [readable |-> TRUE, lines |-> lines]
Unreadable == [readable |-> FALSE, lines |-> <<>>]

FileGetPut == File(<< Line("l1", {}), Line("l2", {Get}), Line("l3", {Get, Put}),
                      Line("l4", {}) >>)
FilePutOnly == File(<< Line("l1", {Put}) >>)

Disks ==
    { NoDisk,
      (DiskPath(RepoB, PathX) :> FileGetPut) @@ (DiskPath(RepoA, PathT) :> FileGetPut)
        @@ (DiskPath(RepoB, <<"a">> \o TsExt) :> FilePutOnly),
      (DiskPath(RepoB, PathX) :> FilePutOnly) @@ (DiskPath(RepoB, PathXUpper) :> FileGetPut)
        @@ (DiskPath(RepoA, PathM) :> Unreadable) }

---------------------------------------------------------------------------
(* State machine                                                           *)

NoResult == [status |-> "none"]
NoLocals == [status |-> "none"]
NoWalk == [pc |-> "idle"]
NoSev == [pc |-> "idle"]

\* The GraphService instances a request handler or an indexing job holds
Instances == {"s1", "s2"}
NoStore == [live |-> FALSE, dirty |-> FALSE, nodes |-> <<>>, edges |-> <<>>]
NoStores == [i \in Instances |-> NoStore]
NoOp == [op |-> "none"]
NoAudit == [ops |-> 0, serialized |-> TRUE, fromEmpty |-> TRUE, graph |-> EmptyGraph]

NoScan == [pc |-> "idle"]
NoPush == [pc |-> "idle"]
NoDb == [pc |-> "idle"]

\* The analyzeFileChange invocations that may be under way at once
CallIds == {"c1", "c2"}
NoCall == [pc |-> "idle"]
NoCalls == [c \in CallIds |-> NoCall]

\* No scanner invocation, no push and no addRepo request is under way
RestIdle ==
    /\ scanRun = NoScan
    /\ push = NoPush
    /\ db = NoDb
    /\ calls = NoCalls

\* No GraphService operation has taken place
StoreIdle ==
    /\ stores = NoStores
    /\ lastOp = NoOp
    /\ audit = NoAudit

Init ==
    /\ doc \in Docs
    /\ result = NoResult
    /\ locals = NoLocals
    /\ walk = NoWalk
    /\ sev = NoSev
    /\ StoreIdle
    /\ RestIdle

\* analyzeFileChange(projectId, repoId, filePath, oldContent?, newContent?), one
\* invocation at a time; the classifier answers only when it is called, the disk is
\* read only by the scanner.
Analyze(changes) ==
    /\ result = NoResult
    /\ \E change \in changes, oldContent \in OldContents, newContent \in NewContents :
      LET repoId == change[1]
          filePath == change[2]
          called == /\ ResolveNode(GetGraph(LoadGraph(doc)), repoId, filePath).found
                    /\ Truthy(oldContent) /\ Truthy(newContent)
      IN  \E ai \in IF called THEN AiAnswers ELSE {AiNotCalled} :
          \E disk \in IF ai.kind = "json" /\ ai.changedFunctions.items # <<>>
                      THEN Disks ELSE {NoDisk} :
          \E out \in { AnalyzeFileChange(doc, repoId, filePath, oldContent,
                                         newContent, ai, disk) } :
                /\ result' = out.result
                /\ locals' = [status |-> "returned", repoId |-> repoId,
                              filePath |-> filePath, oldContent |-> oldContent,
                              newContent |-> newContent, found |-> out.found,
                              changedNodeId |-> out.changedNodeId,
                              graphAffectedFiles |-> out.graphAffectedFiles,
                              semanticAffectedFiles |-> out.semanticAffectedFiles,
                              ranWalker |-> out.ranWalker,
                              ranClassifier |-> out.ranClassifier,
                              ranScanner |-> out.ranScanner,
                              answer |-> out.answer]
                /\ UNCHANGED <<doc, walk, sev, storeVars, restVars>>

\* The caller takes the returned value; the analyzer keeps nothing of it.
Return ==
    /\ result # NoResult
    /\ result' = NoResult
    /\ locals' = NoLocals
    /\ UNCHANGED <<doc, walk, sev, storeVars, restVars>>

Next == Analyze(Changes) \/ Return

Spec == Init /\ [][Next]_vars

\* Node resolution: documents whose nodes are separator spellings of one path
InitResolve ==
    /\ doc \in VariantDocs
    /\ result = NoResult
    /\ locals = NoLocals
    /\ walk = NoWalk
    /\ sev = NoSev
    /\ StoreIdle
    /\ RestIdle

NextResolve == Analyze(VariantChanges) \/ Return

SpecResolve == InitResolve /\ [][NextResolve]_vars

---------------------------------------------------------------------------
(* The walker, one loop iteration per step                                 *)

\* Every subgraph of one six-edge graph (chains, cycles through either changed
\* file, a non-IMPORTS edge), its edges listed in one order and in the reverse
WalkEdges ==
    { Imports(IdM, IdT), Imports(IdX, IdT), Imports(IdX, IdM), Imports(IdT, IdX),
      Imports(IdT, IdM), Calls(IdXUpper, IdT) }

RECURSIVE Reverse(_)
Reverse(q) == IF q = <<>> THEN <<>> ELSE Append(Reverse(Tail(q)), Head(q))

WalkDocs ==
    { ValidDoc(<<FileNode(IdT), FileNode(IdM), FileNode(IdX), FileNode(IdXUpper)>>, es) :
        es \in { SetToSeq(E) : E \in SUBSET WalkEdges }
               \cup { Reverse(SetToSeq(E)) : E \in SUBSET WalkEdges } }

InitWalk ==
    /\ doc \in WalkDocs
    /\ result = NoResult
    /\ locals = NoLocals
    /\ walk = NoWalk
    /\ sev = NoSev
    /\ StoreIdle
    /\ RestIdle

\* findAffectedFiles(graph, changedNodeId, repoId) as analyzeFileChange calls it:
\* on the resolved node of a changed file
WalkCall ==
    /\ walk.pc = "idle"
    /\ \E change \in Changes :
         \E graph \in { GetGraph(LoadGraph(doc)) } :
         \E changed \in { ResolveNode(graph, change[1], change[2]) } :
            /\ changed.found
            /\ walk' = [pc |-> "loop", graph |-> graph, changedNodeId |-> changed.id,
                        sourceRepoId |-> change[1], st |-> WalkStart(changed.id)]
    /\ UNCHANGED <<doc, result, locals, sev, storeVars, restVars>>

\* while (queue.length > 0) { ... }
WalkIterate ==
    /\ walk.pc = "loop"
    /\ walk.st.queue # <<>>
    /\ walk' = [walk EXCEPT !.st = WalkIteration(walk.graph, walk.st,
                                                 walk.changedNodeId, walk.sourceRepoId)]
    /\ UNCHANGED <<doc, result, locals, sev, storeVars, restVars>>

\* return affected
WalkReturn ==
    /\ walk.pc = "loop"
    /\ walk.st.queue = <<>>
    /\ walk' = [walk EXCEPT !.pc = "done"]
    /\ UNCHANGED <<doc, result, locals, sev, storeVars, restVars>>

NextWalk == WalkCall \/ WalkIterate \/ WalkReturn

\* The loop is synchronous code: once called it runs on until it returns.
SpecWalk ==
    InitWalk /\ [][NextWalk]_vars /\ WF_vars(WalkIterate) /\ WF_vars(WalkReturn)

---------------------------------------------------------------------------
(* determineSeverity on its own                                            *)

InitSeverity ==
    /\ doc = MissingDoc
    /\ result = NoResult
    /\ locals = NoLocals
    /\ walk = NoWalk
    /\ sev = NoSev
    /\ StoreIdle
    /\ RestIdle

SeverityCall ==
    /\ sev.pc = "idle"
    /\ \E affectedCount \in 0..MaxCount, isBreaking \in BOOLEAN :
         sev' = [pc |-> "returned", affectedCount |-> affectedCount,
                 isBreaking |-> isBreaking,
                 severity |-> DetermineSeverity(affectedCount, isBreaking)]
    /\ UNCHANGED <<doc, result, locals, walk, storeVars, restVars>>

SeverityReturn ==
    /\ sev.pc = "returned"
    /\ sev' = NoSev
    /\ UNCHANGED <<doc, result, locals, walk, storeVars, restVars>>

NextSeverity == SeverityCall \/ SeverityReturn

SpecSeverity == InitSeverity /\ [][NextSeverity]_vars

---------------------------------------------------------------------------
(* GraphService: instances over one project's document                     *)

StoreNode(id, label, metadata) ==
    [id |-> id, type |-> "FILE", label |-> label, metadata |-> metadata]
MetaOf(repoId) == [defined |-> TRUE, repoId |-> repoId]
NoMeta == [defined |-> FALSE, repoId |-> <<>>]

IdP == NodeId(RepoB, PathQ)

\* A file of each repository as the indexer writes it, a second node under the
\* first one's id, and a node without metadata
NodeT == StoreNode(IdT, "t.ts", MetaOf(RepoA))
NodeTAgain == StoreNode(IdT, "T", MetaOf(RepoB))
NodeX == StoreNode(IdX, "x.ts", MetaOf(RepoB))
NodeP == StoreNode(IdP, "q.ts", NoMeta)

StoreNodes == {NodeT, NodeTAgain, NodeX, NodeP}
StoreEdges == {Imports(IdX, IdT), Calls(IdX, IdT), Imports(IdP, IdX)}
StoreRepos == {RepoA, RepoB}

\* The documents a run starts from: none, the three that cannot be loaded, an
\* empty one, one that an indexer saved, and one written by hand in which an
\* id and an edge occur twice
StoreDocs ==
    { MissingDoc, UnreadableDoc, BadJsonDoc, NoNodesDoc,
      ValidDoc(<<>>, <<>>),
      ValidDoc(<<NodeX, NodeT, NodeP>>,
               <<Imports(IdX, IdT), Imports(IdP, IdX), Calls(IdX, IdT)>>),
      ValidDoc(<<NodeT, NodeX, NodeTAgain>>, <<Imports(IdX, IdT), Imports(IdX, IdT)>>) }

SharedDocs == { MissingDoc, ValidDoc(<<NodeX, NodeT>>, <<Imports(IdX, IdT)>>) }

InitStoreFrom(docs) ==
    /\ doc \in docs
    /\ result = NoResult
    /\ locals = NoLocals
    /\ walk = NoWalk
    /\ sev = NoSev
    /\ stores = NoStores
    /\ lastOp = NoOp
    /\ RestIdle
    /\ audit = [ops |-> 0, serialized |-> TRUE,
                fromEmpty |-> (doc.nodes = <<>> /\ doc.edges = <<>>),
                graph |-> LoadGraph(doc)]

\* The nodes and edges instance i holds
Memory(i) == [nodes |-> stores[i].nodes, edges |-> stores[i].edges]

Holding(store, dirty) ==
    [live |-> TRUE, dirty |-> dirty, nodes |-> store.nodes, edges |-> store.edges]

\* new GraphService(projectId): the constructor loads the document; when load
\* throws, no instance comes to be
Construct(i) ==
    /\ lastOp' = [op |-> "construct", inst |-> i, threw |-> LoadThrows(doc),
                  arg |-> <<>>, before |-> Memory(i), docBefore |-> doc]
    /\ stores' = [stores EXCEPT ![i] = IF LoadThrows(doc) THEN NoStore
                                       ELSE Holding(LoadGraph(doc), FALSE)]
    /\ audit' = [audit EXCEPT !.serialized =
                    /\ audit.serialized
                    /\ ~stores[i].dirty
                    /\ \A j \in Instances \ {i} : ~stores[j].live]
    /\ UNCHANGED <<doc, result, locals, walk, sev, restVars>>

\* The handler or job that held instance i ends
Drop(i) ==
    /\ stores[i].live
    /\ stores' = [stores EXCEPT ![i] = NoStore]
    /\ lastOp' = [op |-> "drop", inst |-> i, threw |-> FALSE,
                  arg |-> <<>>, before |-> Memory(i), docBefore |-> doc]
    /\ audit' = [audit EXCEPT !.serialized = audit.serialized /\ ~stores[i].dirty]
    /\ UNCHANGED <<doc, result, locals, walk, sev, restVars>>

\* A primitive of instance i has returned out, and would return ideal on the
\* graph that takes every mutation in turn
Mutated(i, op, arg, out, ideal, saved) ==
    /\ stores' = [stores EXCEPT ![i] =
                    Holding(out.store,
                            IF saved THEN FALSE
                            ELSE stores[i].dirty \/ out.store # Memory(i))]
    /\ doc' = out.doc
    /\ lastOp' = [op |-> op, inst |-> i, threw |-> FALSE,
                  arg |-> arg, before |-> Memory(i), docBefore |-> doc]
    /\ audit' = [audit EXCEPT !.ops = audit.ops + 1, !.graph = ideal.store]
    /\ UNCHANGED <<result, locals, walk, sev, restVars>>

AddNodeCall(i, nodes) ==
    /\ stores[i].live /\ audit.ops < MaxOps
    /\ \E node \in nodes :
         Mutated(i, "addNode", node, AddNode(Memory(i), doc, node),
                 AddNode(audit.graph, doc, node), FALSE)

AddEdgeCall(i, edges) ==
    /\ stores[i].live /\ audit.ops < MaxOps
    /\ \E edge \in edges :
         Mutated(i, "addEdge", edge, AddEdge(Memory(i), doc, edge),
                 AddEdge(audit.graph, doc, edge), FALSE)

RemoveNodesByRepoIdCall(i, repos) ==
    /\ stores[i].live /\ audit.ops < MaxOps
    /\ \E repoId \in repos :
         Mutated(i, "removeNodesByRepoId", repoId,
                 RemoveNodesByRepoId(Memory(i), doc, repoId),
                 RemoveNodesByRepoId(audit.graph, doc, repoId), TRUE)

ClearCall(i) ==
    /\ stores[i].live /\ audit.ops < MaxOps
    /\ Mutated(i, "clear", <<>>, Clear(Memory(i), doc), Clear(audit.graph, doc), TRUE)

SaveCall(i) ==
    /\ stores[i].live /\ audit.ops < MaxOps
    /\ Mutated(i, "save", <<>>, [store |-> Memory(i), doc |-> Save(Memory(i), doc)],
               [store |-> audit.graph], TRUE)

\* One instance, constructed again and again
NextStore ==
    \/ Construct("s1")
    \/ Drop("s1")
    \/ AddNodeCall("s1", StoreNodes)
    \/ AddEdgeCall("s1", StoreEdges)
    \/ RemoveNodesByRepoIdCall("s1", StoreRepos)
    \/ ClearCall("s1")
    \/ SaveCall("s1")

SpecStore == InitStoreFrom(StoreDocs) /\ [][NextStore]_vars

\* Two instances of one project: an indexing job's and a request handler's
NextShared ==
    \E i \in Instances :
        \/ Construct(i)
        \/ Drop(i)
        \/ AddNodeCall(i, {NodeT, NodeP})
        \/ AddEdgeCall(i, {Imports(IdP, IdT)})
        \/ RemoveNodesByRepoIdCall(i, {RepoB})
        \/ ClearCall(i)
        \/ SaveCall(i)

SpecShared == InitStoreFrom(SharedDocs) /\ [][NextShared]_vars

---------------------------------------------------------------------------
(* searchForAffectedFiles on its own: one call on the loaded graph, for a  *)
(* source repository, a list of changed identifiers and a working copy     *)

RepoAB == <<"A", "B">>
PathR == <<"r", ".", "m", "d">>

\* Nodes of the scanned graphs: a file of A, two spellings of one file of B, a
\* file of a repository whose id begins with "A", a file that is no code, a
\* node that is no file, and two more files of B
ScanNodes ==
    { FileNode(IdT), FileNode(IdX), FileNode(IdXUpper),
      FileNode(NodeId(RepoAB, PathT)), FileNode(NodeId(RepoB, PathR)),
      [id |-> NodeId(RepoB, PathQ), type |-> "FUNCTION"],
      FileNode(NodeId(RepoB, PathM)), FileNode(NodeId(RepoB, PathZ)) }

MaxScanNodes == 3

ScanNodeLists ==
    { ns \in SeqsUpTo(ScanNodes, MaxScanNodes) :
        \A i, j \in 1..Len(ns) : i # j => ns[i].id # ns[j].id }

ScanDocs == { ValidDoc(ns, <<>>) : ns \in ScanNodeLists }

ScanFunctionLists ==
    { <<>>, <<ShortName>>, <<Get>>, <<Put, Get>>, <<GetPadded, ShortName, Put>>,
      <<Get, Get>>, <<GetPadded, Get>> }

FileGetTwice == File(<< Line("l1", {Get}), Line("l2", {}), Line("l3", {}),
                        Line("l4", {Get, Put}), Line("l5", {}), Line("l6", {}) >>)

ScanDisks ==
    { NoDisk,
      (DiskPath(RepoB, PathX) :> FileGetPut) @@ (DiskPath(RepoAB, PathT) :> FileGetPut)
        @@ (DiskPath(RepoB, PathM) :> Unreadable) @@ (DiskPath(RepoB, PathZ) :> FileGetTwice)
        @@ (DiskPath(RepoB, PathR) :> FileGetPut) @@ (DiskPath(RepoB, PathQ) :> FileGetPut)
        @@ (DiskPath(RepoA, PathT) :> FileGetPut),
      (DiskPath(RepoB, PathX) :> FileGetTwice) @@ (DiskPath(RepoB, PathXUpper) :> FilePutOnly)
        @@ (DiskPath(RepoB, PathZ) :> FileGetPut) }

InitScan ==
    /\ doc \in ScanDocs
    /\ result = NoResult
    /\ locals = NoLocals
    /\ walk = NoWalk
    /\ sev = NoSev
    /\ StoreIdle
    /\ RestIdle

\* searchForAffectedFiles(graph, sourceRepoId, changedFunctions)
ScanCall ==
    /\ scanRun = NoScan
    /\ \E sourceRepoId \in {RepoA, RepoB}, changedFunctions \in ScanFunctionLists,
          disk \in ScanDisks :
        \E graph \in { GetGraph(LoadGraph(doc)) } :
          scanRun' = [pc |-> "done",
                      sourceRepoId |-> sourceRepoId,
                      changedFunctions |-> changedFunctions,
                      disk |-> disk,
                      opened |-> ScannedFiles(graph, sourceRepoId, changedFunctions),
                      hits |-> SearchForAffectedFiles(graph, sourceRepoId,
                                                      changedFunctions, disk)]
    /\ UNCHANGED <<doc, result, locals, walk, sev, storeVars, push, db, calls>>

ScanReturn ==
    /\ scanRun # NoScan
    /\ scanRun' = NoScan
    /\ UNCHANGED <<doc, result, locals, walk, sev, storeVars, push, db, calls>>

NextScan == ScanCall \/ ScanReturn

SpecScan == InitScan /\ [][NextScan]_vars

---------------------------------------------------------------------------
(* analyzeFileChange invocations side by side with an indexing job: an     *)
(* invocation loads the graph and walks it in one synchronous stretch,     *)
(* awaits the classifier, and scans and returns on the graph it loaded     *)

ConcurrentDocs ==
    { UnreadableDoc, ValidDoc(<<NodeX, NodeT>>, <<Imports(IdX, IdT)>>) }

ConcurrentAnswers ==
    { AiFailure("throws"),
      [kind |-> "json", isBreaking |-> "true", explanation |-> "why",
       changedFunctions |-> [defined |-> TRUE, shape |-> "list", items |-> <<Put>>]],
      [kind |-> "json", isBreaking |-> "false", explanation |-> "why",
       changedFunctions |-> [defined |-> FALSE, shape |-> "list", items |-> <<>>]] }

ConcurrentDisk == (DiskPath(RepoB, PathQ) :> FilePutOnly)

\* The document that holds what `const graph = graphService.getGraph()` holds
\* when the invocation comes back from its await: the graph it loaded
GraphInUseShared(call, d) == d

GraphInUse(call, d) == ValidDoc(call.graph.nodes, call.graph.edges)

\* `new GraphService(projectId)` and `getGraph()`; a load that throws rejects
\* the invocation at once
AnalyzeBegin(c) ==
    /\ calls[c].pc = "idle"
    /\ \E change \in {<<RepoA, PathT>>, <<RepoB, PathX>>},
          oldContent \in {Undefined, Content("old")} :
         calls' = [calls EXCEPT ![c] =
                     [pc |-> IF LoadThrows(doc) THEN "returned" ELSE "awaiting",
                      repoId |-> change[1], filePath |-> change[2],
                      oldContent |-> oldContent, newContent |-> Content("new"),
                      loaded |-> doc,
                      graph |-> IF LoadThrows(doc) THEN EmptyGraph
                                ELSE GetGraph(LoadGraph(doc)),
                      answer |-> AiNotCalled,
                      atReturn |-> doc,
                      result |-> IF LoadThrows(doc) THEN Rejected ELSE NoResult]]
    /\ UNCHANGED <<doc, result, locals, walk, sev, storeVars, scanRun, push, db>>

\* The rest of the invocation, from the classifier's answer to the return
AnalyzeEnd(c) ==
    /\ calls[c].pc = "awaiting"
    /\ \E ai \in IF /\ ResolveNode(calls[c].graph, calls[c].repoId, calls[c].filePath).found
                    /\ Truthy(calls[c].oldContent) /\ Truthy(calls[c].newContent)
                 THEN ConcurrentAnswers ELSE {AiNotCalled} :
         \E out \in { AnalyzeFileChange(GraphInUse(calls[c], doc), calls[c].repoId,
                                        calls[c].filePath, calls[c].oldContent,
                                        calls[c].newContent, ai, ConcurrentDisk) } :
           calls' = [calls EXCEPT ![c] =
                       [@ EXCEPT !.pc = "returned", !.answer = ai, !.atReturn = doc,
                                 !.result = out.result]]
    /\ UNCHANGED <<doc, result, locals, walk, sev, storeVars, scanRun, push, db>>

\* The caller takes the result
AnalyzeTaken(c) ==
    /\ calls[c].pc = "returned"
    /\ calls' = [calls EXCEPT ![c] = NoCall]
    /\ UNCHANGED <<doc, result, locals, walk, sev, storeVars, scanRun, push, db>>

NextConcurrent ==
    \/ \E c \in CallIds : AnalyzeBegin(c) \/ AnalyzeEnd(c) \/ AnalyzeTaken(c)
    \/ Construct("s1")
    \/ AddEdgeCall("s1", {Imports(IdP, IdT)})
    \/ RemoveNodesByRepoIdCall("s1", {RepoB})
    \/ SaveCall("s1")

SpecConcurrent == InitStoreFrom(ConcurrentDocs) /\ [][NextConcurrent]_vars

---------------------------------------------------------------------------
(* WebhookController.processGitHubPush: one push at a time, one changed    *)
(* file per step. A payload is [hasUrl, known, commits]: whether it names   *)
(* a repository url, whether a project holds that repository, and its      *)
(* commits [modified, added, removed]. The repository pushed to is A.       *)

\* files.forEach(f => changedFiles.add(f)): a Set keeps insertion order
RECURSIVE AddEach(_, _)
AddEach(changedFiles, files) ==
    IF files = <<>> THEN changedFiles
    ELSE AddEach(IF \E i \in 1..Len(changedFiles) : changedFiles[i] = Head(files)
                 THEN changedFiles ELSE Append(changedFiles, Head(files)),
                 Tail(files))

\* `for (const commit of commits)`: the modified and the added files
RECURSIVE ChangedFiles(_, _)
ChangedFiles(commits, changedFiles) ==
    IF commits = <<>> THEN changedFiles
    ELSE ChangedFiles(Tail(commits),
            AddEach(AddEach(changedFiles, Head(commits).modified), Head(commits).added))

\* Reporting whatever the analysis returned
ShouldReportAlways(impact) == TRUE

\* `if (impact.affectedFiles.length > 0)`
ShouldReport(impact) == Len(impact.affectedFiles) > 0

\* The body of that `if`: createScan, createImpactReport (a failure of either
\* is caught and logged), then the two notifications, the second one when
\* getRepo finds the repository
ReportImpact(p, filePath, impact, dbOutcome) ==
    [p EXCEPT
       !.scans = IF dbOutcome = "scanFails" THEN @
                 ELSE Append(@, [filePath |-> filePath, status |-> "COMPLETED"]),
       !.reports = IF dbOutcome \in {"scanFails", "reportFails"} THEN @
                   ELSE Append(@, [filePath |-> filePath, summary |-> impact]),
       !.emitted = Append(@, [event |-> "impact:detected", filePath |-> filePath,
                              impact |-> impact])
                   \o IF dbOutcome = "repoGone" THEN <<>>
                      ELSE <<[event |-> "repository:updated", filePath |-> filePath,
                              impact |-> impact]>>]

DbOutcomes == {"ok", "scanFails", "reportFails", "repoGone"}

Commit(modified, added, removed) ==
    [modified |-> modified, added |-> added, removed |-> removed]

PushCommits ==
    { Commit(<<PathT>>, <<>>, <<>>),
      Commit(<<PathR, PathT>>, <<PathZ>>, <<PathM>>),
      Commit(<<>>, <<PathT>>, <<PathX>>),
      Commit(<<>>, <<>>, <<PathT>>) }

MaxCommits == 2

PushPayloads ==
    { [hasUrl |-> u, known |-> k, commits |-> cs] :
        u \in BOOLEAN, k \in BOOLEAN, cs \in SeqsUpTo(PushCommits, MaxCommits) }

\* The project's graph: t.ts and m.ts of A, imported from B
PushDocs ==
    { UnreadableDoc,
      ValidDoc(<<FileNode(IdT), FileNode(IdM), FileNode(IdX)>>,
               <<Imports(IdX, IdT), Imports(IdX, IdM)>>) }

InitPush ==
    /\ doc \in PushDocs
    /\ result = NoResult
    /\ locals = NoLocals
    /\ walk = NoWalk
    /\ sev = NoSev
    /\ StoreIdle
    /\ RestIdle

\* processGitHubPush up to the loop over the changed files
PushReceived ==
    /\ push = NoPush
    /\ \E payload \in PushPayloads :
         push' = [pc |-> IF ~payload.hasUrl \/ payload.commits = <<>> \/ ~payload.known
                         THEN "done" ELSE "files",
                  payload |-> payload,
                  todo |-> IF ~payload.hasUrl \/ payload.commits = <<>> \/ ~payload.known
                           THEN <<>> ELSE ChangedFiles(payload.commits, <<>>),
                  analyzed |-> <<>>, scans |-> <<>>, reports |-> <<>>, emitted |-> <<>>]
    /\ UNCHANGED <<doc, result, locals, walk, sev, storeVars, scanRun, db, calls>>

\* One pass of `for (const filePath of changedFiles)`; the contents are what
\* GitService gave, or undefined after a throw; an analysis that throws ends
\* the processing
PushFile ==
    /\ push.pc = "files" /\ push.todo # <<>>
    /\ \E filePath \in {Head(push.todo)} :
         IF ~HasCodeExtension(filePath)
         THEN push' = [push EXCEPT !.todo = Tail(@)]
         ELSE \E oldContent \in {Undefined, Content("old")},
                 newContent \in {Undefined, Content("new")},
                 dbOutcome \in DbOutcomes :
              \E ai \in IF /\ ~LoadThrows(doc)
                           /\ ResolveNode(GetGraph(LoadGraph(doc)), RepoA, filePath).found
                           /\ Truthy(oldContent) /\ Truthy(newContent)
                        THEN ConcurrentAnswers ELSE {AiNotCalled} :
              \E out \in { AnalyzeFileChange(doc, RepoA, filePath, oldContent,
                                             newContent, ai, ConcurrentDisk) } :
              \E seen \in { [push EXCEPT
                               !.todo = Tail(@),
                               !.analyzed = Append(@, [filePath |-> filePath,
                                                      oldContent |-> oldContent,
                                                      newContent |-> newContent,
                                                      found |-> out.found,
                                                      impact |-> out.result])] } :
                 push' = IF out.result = Rejected
                         THEN [seen EXCEPT !.pc = "failed"]
                         ELSE IF ShouldReport(out.result)
                         THEN ReportImpact(seen, filePath, out.result, dbOutcome)
                         ELSE seen
    /\ UNCHANGED <<doc, result, locals, walk, sev, storeVars, scanRun, db, calls>>

\* The loop has ended
PushEnd ==
    /\ push.pc = "files" /\ push.todo = <<>>
    /\ push' = [push EXCEPT !.pc = "done"]
    /\ UNCHANGED <<doc, result, locals, walk, sev, storeVars, scanRun, db, calls>>

\* The response is sent
PushAnswered ==
    /\ push # NoPush /\ push.pc \in {"done", "failed"}
    /\ push' = NoPush
    /\ UNCHANGED <<doc, result, locals, walk, sev, storeVars, scanRun, db, calls>>

NextPush == PushReceived \/ PushFile \/ PushEnd \/ PushAnswered

SpecPush == InitPush /\ [][NextPush]_vars

---------------------------------------------------------------------------
(* ProjectController.addRepo over ProjectService.addRepo: requests side by *)
(* side on one repository table; every await is a step of its own         *)

Projects == {"p1", "p2"}
RepoTypes == {"SERVER", "WEB", "MOBILE"}
RequestIds == {"r1", "r2"}
MaxRepos == 3

\* const initialStatus = type === 'SERVER' ? 'PENDING' : 'UNTRACKED'
InitialStatus(type) == IF type = "SERVER" THEN "PENDING" ELSE "UNTRACKED"

\* The count over every project's repositories
CheckServerRepoExistsAnywhere(repos, projectId) ==
    Cardinality({ i \in 1..Len(repos) : repos[i].type = "SERVER" }) > 0

\* checkServerRepoExists: prisma.repository.count({where: {projectId, type: 'SERVER'}}) > 0
CheckServerRepoExists(repos, projectId) ==
    Cardinality({ i \in 1..Len(repos) :
                    repos[i].projectId = projectId /\ repos[i].type = "SERVER" }) > 0

\* prisma.repository.create({data: {projectId, name, url, type, status}})
CreateRepository(repos, projectId, type, status) ==
    Append(repos, [id |-> Len(repos) + 1, projectId |-> projectId, type |-> type,
                   status |-> status])

NoRepo == [id |-> 0, projectId |-> "", type |-> "", status |-> ""]
NoRequest ==
    [pc |-> "idle", projectId |-> "", type |-> "", status |-> "", seen |-> <<>>,
     repo |-> NoRepo, code |-> 0, error |-> ""]

EmptyDb == [pc |-> "open", repos |-> <<>>, reqs |-> [r \in RequestIds |-> NoRequest]]

\* The requests that have not been answered
InFlight == { r \in RequestIds : db.reqs[r].pc \in {"counting", "creating"} }

InitRepos ==
    /\ doc = MissingDoc
    /\ result = NoResult
    /\ locals = NoLocals
    /\ walk = NoWalk
    /\ sev = NoSev
    /\ StoreIdle
    /\ scanRun = NoScan
    /\ push = NoPush
    /\ calls = NoCalls
    /\ db = EmptyDb

\* POST /repos: the controller picks the initial status and calls the service,
\* which goes to count the servers for a WEB or MOBILE repository
AddRepoCall(r) ==
    /\ db.reqs[r].pc = "idle"
    /\ Len(db.repos) + Cardinality(InFlight) < MaxRepos
    /\ \E projectId \in Projects, type \in RepoTypes :
         db' = [db EXCEPT !.reqs[r] =
                  [NoRequest EXCEPT
                     !.pc = IF type = "WEB" \/ type = "MOBILE" THEN "counting"
                            ELSE "creating",
                     !.projectId = projectId, !.type = type,
                     !.status = InitialStatus(type)]]
    /\ UNCHANGED <<doc, result, locals, walk, sev, storeVars, scanRun, push, calls>>

\* `const hasServer = await this.checkServerRepoExists(projectId)` and the throw
\* that the controller answers with status 400
AddRepoCount(r) ==
    /\ db.reqs[r].pc = "counting"
    /\ db' = [db EXCEPT !.reqs[r] =
                IF CheckServerRepoExists(db.repos, db.reqs[r].projectId)
                THEN [@ EXCEPT !.pc = "creating", !.seen = db.repos]
                ELSE [@ EXCEPT !.pc = "answered", !.seen = db.repos, !.code = 400,
                               !.error = "SERVER_REQUIRED"]]
    /\ UNCHANGED <<doc, result, locals, walk, sev, storeVars, scanRun, push, calls>>

\* `return prisma.repository.create(...)` and `res.json(repo)`
AddRepoCreate(r) ==
    /\ db.reqs[r].pc = "creating"
    /\ \E repos \in { CreateRepository(db.repos, db.reqs[r].projectId, db.reqs[r].type,
                                       db.reqs[r].status) } :
         db' = [db EXCEPT !.repos = repos,
                          !.reqs[r] = [@ EXCEPT !.pc = "answered", !.code = 200,
                                                !.repo = repos[Len(repos)]]]
    /\ UNCHANGED <<doc, result, locals, walk, sev, storeVars, scanRun, push, calls>>

\* The background indexing of a SERVER repository ends: updateRepoStatus
IndexingEnds ==
    /\ \E i \in 1..Len(db.repos), status \in {"INDEXED", "FAILED"} :
         /\ db.repos[i].type = "SERVER" /\ db.repos[i].status = "PENDING"
         /\ db' = [db EXCEPT !.repos[i].status = status]
    /\ UNCHANGED <<doc, result, locals, walk, sev, storeVars, scanRun, push, calls>>

\* The client has its answer
AddRepoAnswered(r) ==
    /\ db.reqs[r].pc = "answered"
    /\ db' = [db EXCEPT !.reqs[r] = NoRequest]
    /\ UNCHANGED <<doc, result, locals, walk, sev, storeVars, scanRun, push, calls>>

NextRepos ==
    \/ \E r \in RequestIds :
          AddRepoCall(r) \/ AddRepoCount(r) \/ AddRepoCreate(r) \/ AddRepoAnswered(r)
    \/ IndexingEnds

SpecRepos == InitRepos /\ [][NextRepos]_vars

---------------------------------------------------------------------------
(* Properties                                                              *)

Range(q) == { q[i] : i \in 1..Len(q) }

Returned == result.status = "returned"

\* The ids of the document's nodes
DocNodeIds == { doc.nodes[i].id : i \in 1..Len(doc.nodes) }

\* The id a hit stands for
HitId(h) == NodeId(h.repoId, h.filePath)

\* Ids that some IMPORTS edge of the document leads from into S
ImportersOf(S) ==
    { doc.edges[i].source :
        i \in { j \in 1..Len(doc.edges) :
                  doc.edges[j].type = "IMPORTS" /\ doc.edges[j].target \in S } }

\* Everything from which S is reachable along IMPORTS edges, S included
RECURSIVE ReverseClosure(_)
ReverseClosure(S) ==
    LET more == S \cup ImportersOf(S)
    IN  IF more = S THEN S ELSE ReverseClosure(more)

\* id belongs to repository repoId: it starts with `${repoId}:`
OwnedBy(id, repoId) == StartsWith(id, repoId \o <<COLON>>)

\* C1. Non-breaking short-circuit: whenever the changed file resolved to a node
\* and the classifier answered isBreaking = false, the returned affectedFiles is
\* empty and the severity is LOW, whatever the walker and the scanner found.
C1_NonBreakingShortCircuit ==
    (Returned /\ locals.found /\ locals.answer.kind = "json"
        /\ locals.answer.isBreaking = "false")
    => (result.affectedFiles = <<>> /\ result.severity = "LOW"
        /\ result.isBreaking = FALSE)

\* C1 witness: a non-breaking answer with structural and semantic hits found
C1_Witness ==
    /\ Returned /\ locals.found
    /\ locals.answer.kind = "json" /\ locals.answer.isBreaking = "false"
    /\ Len(locals.graphAffectedFiles) >= 2
    /\ locals.semanticAffectedFiles # <<>>
    /\ result.affectedFiles = <<>>

\* C2. Not found: when none of the three candidate ids is a node of the graph,
\* analyzeFileChange returns affectedFiles = [], isBreaking = false, severity LOW
\* and the explanation "File not found in dependency graph", and runs neither
\* the walker, the classifier nor the scanner.
C2_NotFoundResult ==
    (Returned
       /\ NodeId(locals.repoId, ToForwardSlashes(locals.filePath)) \notin DocNodeIds
       /\ NodeId(locals.repoId, locals.filePath) \notin DocNodeIds
       /\ NodeId(locals.repoId, ToBackSlashes(locals.filePath)) \notin DocNodeIds)
    => /\ result.affectedFiles = <<>>
       /\ result.isBreaking = FALSE
       /\ result.severity = "LOW"
       /\ result.explanation = "File not found in dependency graph"
       /\ result.changedFile = locals.filePath
       /\ result.changedRepo = locals.repoId
       /\ ~locals.ranWalker /\ ~locals.ranClassifier /\ ~locals.ranScanner

\* C2 witness: a file that is no node, in a graph that has nodes and edges, asked
\* about with both contents supplied
C2_Witness ==
    /\ Returned /\ ~locals.found
    /\ doc.nodes # <<>> /\ doc.edges # <<>>
    /\ Truthy(locals.oldContent) /\ Truthy(locals.newContent)
    /\ result.explanation = "File not found in dependency graph"

\* C5. Cross-repo filter: no structural hit has the source repository's id.
C5_CrossRepoFilter ==
    (Returned /\ locals.found)
    => \A h \in Range(locals.graphAffectedFiles) : h.repoId # locals.repoId

\* C5 witness: the walk passed through a file of the source repository (it
\* imports the changed file and is imported from another repository) and hits
\* were emitted
C5_Witness ==
    /\ Returned /\ locals.found
    /\ locals.graphAffectedFiles # <<>>
    /\ \E i, j \in 1..Len(doc.edges) :
          /\ doc.edges[i].type = "IMPORTS" /\ doc.edges[j].type = "IMPORTS"
          /\ doc.edges[i].target = locals.changedNodeId
          /\ OwnedBy(doc.edges[i].source, locals.repoId)
          /\ doc.edges[i].source # locals.changedNodeId
          /\ doc.edges[j].target = doc.edges[i].source
          /\ ~OwnedBy(doc.edges[j].source, locals.repoId)

PathOf(id) == SplitRest(id)
AllForward(p) == p = ToForwardSlashes(p)
AllBack(p) == p = ToBackSlashes(p)

\* The nodes of the source repository stored under some separator spelling of the
\* path asked about
StoredSpellings ==
    { n \in DocNodeIds :
        /\ OwnedBy(n, locals.repoId)
        /\ ToForwardSlashes(PathOf(n)) = ToForwardSlashes(locals.filePath) }

\* C3 as stated. Resolution determinism: a node stored under any separator
\* spelling of a path is the node resolution returns, whichever separator style
\* the input path uses.
C3_AnyStoredSpellingIsFound ==
    Returned => \A n \in StoredSpellings : locals.found /\ locals.changedNodeId = n

\* C3 as amended. Resolution returns the first of repoId:forward-slash path,
\* repoId:path as given, repoId:back-slash path that is a node id, and none when
\* none is. So a node under the all-forward-slash spelling is returned for every
\* input spelling; one under the all-back-slash spelling is returned unless the
\* forward-slash spelling or the input's own spelling is a node too; one under a
\* mixed spelling is returned only for an input spelled exactly so while the
\* forward-slash spelling is no node.
C3_FirstCandidateWins ==
    Returned =>
      \E c \in { << NodeId(locals.repoId, ToForwardSlashes(locals.filePath)),
                    NodeId(locals.repoId, locals.filePath),
                    NodeId(locals.repoId, ToBackSlashes(locals.filePath)) >> } :
        /\ c[1] \in DocNodeIds => (locals.found /\ locals.changedNodeId = c[1])
        /\ (c[1] \notin DocNodeIds /\ c[2] \in DocNodeIds)
             => (locals.found /\ locals.changedNodeId = c[2])
        /\ (c[1] \notin DocNodeIds /\ c[2] \notin DocNodeIds /\ c[3] \in DocNodeIds)
             => (locals.found /\ locals.changedNodeId = c[3])
        /\ (c[1] \notin DocNodeIds /\ c[2] \notin DocNodeIds /\ c[3] \notin DocNodeIds)
             => ~locals.found
        /\ \A n \in StoredSpellings :
             /\ AllForward(PathOf(n)) => (locals.found /\ locals.changedNodeId = n)
             /\ (AllBack(PathOf(n)) /\ c[1] \notin DocNodeIds
                   /\ (c[2] \notin DocNodeIds \/ c[2] = n))
                  => (locals.found /\ locals.changedNodeId = n)
             /\ (~AllForward(PathOf(n)) /\ ~AllBack(PathOf(n)))
                  => ((locals.found /\ locals.changedNodeId = n)
                        <=> (locals.filePath = PathOf(n) /\ c[1] \notin DocNodeIds))

\* C3 witness: a node stored with back-slashes only is resolved, by the third
\* candidate, from an input spelled with forward slashes only
C3_Witness ==
    /\ Returned /\ locals.found
    /\ AllForward(locals.filePath) /\ ~AllBack(locals.filePath)
    /\ AllBack(PathOf(locals.changedNodeId)) /\ ~AllForward(PathOf(locals.changedNodeId))

WalkNoRepeat ==
    \A i, j \in 1..Len(walk.st.pushed) :
        i # j => walk.st.pushed[i] # walk.st.pushed[j]

WalkStartNotEmitted ==
    /\ walk.st.pushed[1] = walk.changedNodeId
    /\ \A h \in Range(walk.st.affected) : HitId(h) # walk.changedNodeId

\* C4. BFS completeness and termination: on every graph, cyclic or not, the
\* walker's loop ends; no id is put on the queue twice; the ids put on the queue
\* are, at the end, exactly those from which the start is reachable along IMPORTS
\* edges; the start is enqueued once, before the loop, and is never emitted.
C4_WalkerVisitsOnceAndTerminates ==
    /\ [](walk.pc # "idle" => (WalkNoRepeat /\ WalkStartNotEmitted))
    /\ [](walk.pc = "done"
            => Range(walk.st.pushed) = ReverseClosure({walk.changedNodeId}))
    /\ (walk.pc = "loop") ~> (walk.pc = "done")

\* C4 witness: the walker has returned on a graph with an import cycle through
\* the changed node
C4_Witness ==
    /\ walk.pc = "done"
    /\ Len(walk.st.pushed) >= 2
    /\ \E i \in 1..Len(doc.edges) :
          /\ doc.edges[i].type = "IMPORTS"
          /\ doc.edges[i].source = walk.changedNodeId
          /\ doc.edges[i].target \in Range(walk.st.pushed) \ {walk.changedNodeId}

\* The hits in merge order: [...graphAffectedFiles, ...semanticAffectedFiles]
MergeOrder == locals.graphAffectedFiles \o locals.semanticAffectedFiles

\* The normalized key of a hit: its repoId, and its filePath lower-cased with
\* back-slashes replaced by forward slashes
HitKey(h) == <<h.repoId, ToLowerCase(ToForwardSlashes(h.filePath))>>

\* Breaking results are the ones that carry the de-duplicated list
ReturnedBreaking == Returned /\ locals.found /\ result.isBreaking

\* C7 as stated. Dedup first-occurrence-wins: every key of the merged hits has an
\* entry in affectedFiles, and each entry is the first hit in merge order with
\* its key, with that hit's own path spelling, reason and context.
C7_FirstOccurrenceWins ==
    ReturnedBreaking =>
      /\ { HitKey(e) : e \in Range(result.affectedFiles) }
           = { HitKey(h) : h \in Range(MergeOrder) }
      /\ \A e \in Range(result.affectedFiles) :
           \E i \in 1..Len(MergeOrder) :
              /\ MergeOrder[i] = e
              /\ \A j \in 1..(i - 1) : HitKey(MergeOrder[j]) # HitKey(e)

\* The first position in merge order of a hit with key k
FirstWithKey(k) ==
    CHOOSE i \in 1..Len(MergeOrder) :
        HitKey(MergeOrder[i]) = k /\ \A j \in 1..(i - 1) : HitKey(MergeOrder[j]) # k

\* C7 as amended. Dedup keeps one entry for every normalized key of the merged
\* hits, the entries standing in the order of their keys' first hits; the entry
\* kept for a key is the last hit in merge order with that key, with that hit's
\* own path spelling, reason and context, and every earlier hit with the key is
\* dropped.
C7_LastOccurrenceKept ==
    ReturnedBreaking =>
      /\ { HitKey(e) : e \in Range(result.affectedFiles) }
           = { HitKey(h) : h \in Range(MergeOrder) }
      /\ \A e \in Range(result.affectedFiles) :
           \E i \in 1..Len(MergeOrder) :
              /\ MergeOrder[i] = e
              /\ \A j \in (i + 1)..Len(MergeOrder) : HitKey(MergeOrder[j]) # HitKey(e)
      /\ \A a, b \in 1..Len(result.affectedFiles) :
           a < b => FirstWithKey(HitKey(result.affectedFiles[a]))
                      < FirstWithKey(HitKey(result.affectedFiles[b]))

\* C7 witness: a file is both a structural and a semantic hit, another file's
\* hits follow its structural one, and the entry returned for it, the first of
\* affectedFiles, is the semantic hit
C7_Witness ==
    /\ ReturnedBreaking
    /\ Len(result.affectedFiles) >= 2
    /\ result.affectedFiles[1].reason.kind = "Uses modified function"
    /\ locals.graphAffectedFiles # <<>>
    /\ locals.graphAffectedFiles[1].reason.kind = "Imports"
    /\ HitKey(locals.graphAffectedFiles[1]) = HitKey(result.affectedFiles[1])

UpperOf(c) == IF c = "x" THEN "X" ELSE IF c = "d" THEN "D" ELSE IF c = "t" THEN "T" ELSE c

RECURSIVE ToUpperCase(_)
ToUpperCase(s) == IF s = <<>> THEN <<>> ELSE <<UpperOf(Head(s))>> \o ToUpperCase(Tail(s))

\* The hits with their paths respelled: upper case, back-slashes
RECURSIVE SpellingVariants(_)
SpellingVariants(hits) ==
    IF hits = <<>> THEN <<>>
    ELSE <<[Head(hits) EXCEPT !.filePath = ToUpperCase(ToBackSlashes(@))]>>
         \o SpellingVariants(Tail(hits))

KeysOf(hits) == { HitKey(h) : h \in Range(hits) }

NoKeyTwice(hits) ==
    \A i, j \in 1..Len(hits) : i # j => HitKey(hits[i]) # HitKey(hits[j])

\* C8. Dedup idempotence and key uniqueness: no two entries of the returned
\* affectedFiles have the same normalized key; de-duplicating the merged hits
\* followed by themselves, or by upper-case back-slash respellings of themselves,
\* gives as many entries, with the same keys, as de-duplicating them once.
C8_DedupIdempotentUniqueKeys ==
    Returned =>
      /\ NoKeyTwice(result.affectedFiles)
      /\ locals.found =>
           \A again \in { MergeOrder \o MergeOrder,
                          MergeOrder \o SpellingVariants(MergeOrder) } :
              /\ NoKeyTwice(UniqueAffectedFiles(again))
              /\ KeysOf(UniqueAffectedFiles(again)) = KeysOf(UniqueAffectedFiles(MergeOrder))
              /\ Len(UniqueAffectedFiles(again)) = Len(UniqueAffectedFiles(MergeOrder))

\* C8 witness: a breaking result whose merged hits name one file under two
\* spellings that differ in case and separator; one entry is returned for it
C8_Witness ==
    /\ ReturnedBreaking
    /\ \E i, j \in 1..Len(MergeOrder) :
          /\ MergeOrder[i].filePath # MergeOrder[j].filePath
          /\ ToForwardSlashes(MergeOrder[i].filePath)
               # ToForwardSlashes(MergeOrder[j].filePath)
          /\ HitKey(MergeOrder[i]) = HitKey(MergeOrder[j])
    /\ Len(result.affectedFiles) < Len(MergeOrder)
    /\ result.affectedFiles # <<>>

\* C9. Severity table: determineSeverity(affectedCount, isBreaking) is CRITICAL
\* when isBreaking and the count is above 5; HIGH when isBreaking and the count
\* is 1..5; LOW when isBreaking and the count is 0; without isBreaking it is HIGH
\* above 10, MEDIUM for 6..10 and LOW up to 5.
C9_SeverityTable ==
    sev.pc = "returned" =>
      /\ (sev.isBreaking /\ sev.affectedCount > 5) => sev.severity = "CRITICAL"
      /\ (sev.isBreaking /\ sev.affectedCount \in 1..5) => sev.severity = "HIGH"
      /\ (sev.isBreaking /\ sev.affectedCount = 0) => sev.severity = "LOW"
      /\ (~sev.isBreaking /\ sev.affectedCount > 10) => sev.severity = "HIGH"
      /\ (~sev.isBreaking /\ sev.affectedCount \in 6..10) => sev.severity = "MEDIUM"
      /\ (~sev.isBreaking /\ sev.affectedCount \in 0..5) => sev.severity = "LOW"

\* C9 witness: the call with isBreaking and a count of 6, the smallest CRITICAL
C9_Witness ==
    /\ sev.pc = "returned"
    /\ sev.isBreaking /\ sev.affectedCount = 6
    /\ sev.severity = "CRITICAL"

\* C10. Reachable severities: a returned result is LOW, HIGH or CRITICAL, never
\* MEDIUM; it is HIGH exactly when isBreaking with 1..5 affectedFiles and
\* CRITICAL exactly when isBreaking with more than 5, however many hits the
\* walker and the scanner found.
C10_ReachableSeverities ==
    Returned =>
      /\ result.severity \in {"LOW", "HIGH", "CRITICAL"}
      /\ result.severity = "HIGH"
           <=> (result.isBreaking /\ Len(result.affectedFiles) \in 1..5)
      /\ result.severity = "CRITICAL"
           <=> (result.isBreaking /\ Len(result.affectedFiles) > 5)

\* C10 witness: a non-breaking answer on a file with more than 10 structural
\* hits, returned as LOW
C10_Witness ==
    /\ Returned /\ locals.found
    /\ ~result.isBreaking
    /\ locals.answer.kind = "json"
    /\ Len(locals.graphAffectedFiles) > 10
    /\ result.severity = "LOW"

\* The classifier was called and did not give a well-formed answer: the call
\* failed, the text held no JSON object or no valid JSON, or changedFunctions is
\* not a list of strings
DegradedAnswer ==
    /\ Returned /\ locals.found /\ locals.ranClassifier
    /\ \/ locals.answer.kind \in {"throws", "nojson", "badjson"}
       \/ /\ locals.answer.kind = "json"
          /\ locals.answer.changedFunctions.defined
          /\ locals.answer.changedFunctions.shape # "list"

\* C11. Degraded classification: when the classifier call fails or its answer
\* cannot be parsed into the expected structure, analyzeFileChange still returns
\* a result, with isBreaking = false and no semantic hits.
C11_DegradedClassification ==
    DegradedAnswer =>
      /\ result.isBreaking = FALSE
      /\ locals.semanticAffectedFiles = <<>>

\* C12. Store construction never fails on bad persistence: constructing a
\* GraphService on a project whose document is missing, unreadable or malformed
\* raises no error and gives an instance with no nodes and no edges.
C12_BadPersistenceGivesEmptyGraph ==
    (lastOp.op = "construct" /\ lastOp.docBefore.state # "valid")
    => /\ ~lastOp.threw
       /\ stores[lastOp.inst].live
       /\ Memory(lastOp.inst) = EmptyGraph

\* The document holds exactly the nodes and edges of instance i, so that a
\* GraphService constructed now loads them
PersistedIs(i) ==
    /\ doc.state = "valid"
    /\ doc.nodes = MapValues(stores[i].nodes)
    /\ doc.edges = stores[i].edges
    /\ LoadGraph(doc) = Memory(i)

\* C13 as stated. Persist on every mutation: when addNode, addEdge,
\* removeNodesByRepoId or clear has returned, the persisted document equals the
\* instance's nodes and edges.
C13_PersistOnEveryMutation ==
    lastOp.op \in {"addNode", "addEdge", "removeNodesByRepoId", "clear"}
    => PersistedIs(lastOp.inst)

\* C13 as amended. When removeNodesByRepoId, clear or save has returned, the
\* persisted document equals the instance's nodes and edges, so a store
\* constructed afterwards observes the mutation; addNode and addEdge change the
\* instance only and leave the document as it was, until that instance's next
\* save, removeNodesByRepoId or clear.
C13_PersistOnSavingPrimitives ==
    /\ lastOp.op \in {"removeNodesByRepoId", "clear", "save"}
         => PersistedIs(lastOp.inst)
    /\ lastOp.op \in {"addNode", "addEdge"} => doc = lastOp.docBefore

\* C13 witness: removeNodesByRepoId has removed nodes that an addNode before it
\* had not yet persisted along with nodes of the document, and the document is
\* the instance's graph
C13_Witness ==
    /\ lastOp.op = "removeNodesByRepoId"
    /\ lastOp.before # Memory(lastOp.inst)
    /\ lastOp.docBefore.state = "valid"
    /\ lastOp.docBefore.nodes # MapValues(lastOp.before.nodes)
    /\ doc # lastOp.docBefore
    /\ stores[lastOp.inst].nodes # <<>>
    /\ PersistedIs(lastOp.inst)

\* Every constructed instance has saved what it changed
AllSaved == \A i \in Instances : ~stores[i].dirty

\* C14. Lost-update discipline: a save, and the save inside clear and
\* removeNodesByRepoId, writes the instance's whole nodes and edges whatever the
\* document held; when the instances' load-mutate-save cycles were serialized and
\* all are finished, the document holds the graph that takes every mutation in
\* turn; when cycles overlap, the document after a save is still the saving
\* instance's graph only.
C14_LostUpdateDiscipline ==
    /\ lastOp.op \in {"save", "clear", "removeNodesByRepoId"}
         => /\ doc.state = "valid"
            /\ doc.nodes = MapValues(stores[lastOp.inst].nodes)
            /\ doc.edges = stores[lastOp.inst].edges
    /\ (audit.serialized /\ AllSaved) => GetGraph(LoadGraph(doc)) = GetGraph(audit.graph)

\* C14 witness: two instances were constructed while the other was held; one
\* added a node and saved it, then removeNodesByRepoId on the other wrote a
\* document without that node, which no mutation had removed
C14_Witness ==
    /\ lastOp.op = "removeNodesByRepoId"
    /\ ~audit.serialized
    /\ AllSaved
    /\ \E k \in 1..Len(lastOp.docBefore.nodes) :
          /\ \A n \in 1..Len(doc.nodes) : doc.nodes[n] # lastOp.docBefore.nodes[k]
          /\ MapHas(audit.graph.nodes, lastOp.docBefore.nodes[k].id)
          /\ ~MapHas(lastOp.before.nodes, lastOp.docBefore.nodes[k].id)

\* No id occurs twice in a node list
UniqueIds(nodes) ==
    \A a, b \in 1..Len(nodes) : a # b => nodes[a].id # nodes[b].id

\* C15. Node id uniqueness: whatever the document held and whatever sequence of
\* addNode, addEdge, removeNodesByRepoId and clear was called, no two nodes of
\* an instance's graph share an id; addNode of an id that is present leaves the
\* node under that id, all other nodes, the edges and the document unchanged.
C15_NodeIdUniqueness ==
    /\ \A i \in Instances :
         /\ UniqueIds(GetGraph(Memory(i)).nodes)
         /\ \A k \in 1..Len(stores[i].nodes) :
              stores[i].nodes[k].key = stores[i].nodes[k].value.id
    /\ (lastOp.op = "addNode"
          /\ \E k \in 1..Len(lastOp.before.nodes) :
                lastOp.before.nodes[k].value.id = lastOp.arg.id)
       => (Memory(lastOp.inst) = lastOp.before /\ doc = lastOp.docBefore)
    /\ (lastOp.op = "addNode"
          /\ \A k \in 1..Len(lastOp.before.nodes) :
                lastOp.before.nodes[k].value.id # lastOp.arg.id)
       => GetGraph(Memory(lastOp.inst)).nodes
            = Append(GetGraph(lastOp.before).nodes, lastOp.arg)

\* C15 witness: addNode was called with a node that differs from the node the
\* graph has under the same id
C15_Witness ==
    /\ lastOp.op = "addNode"
    /\ \E k \in 1..Len(stores[lastOp.inst].nodes) :
          /\ stores[lastOp.inst].nodes[k].value.id = lastOp.arg.id
          /\ stores[lastOp.inst].nodes[k].value # lastOp.arg
    /\ Len(stores[lastOp.inst].nodes) >= 2

SameTriple(e, f) == e.source = f.source /\ e.target = f.target /\ e.type = f.type

NoTripleTwice(edges) ==
    \A a, b \in 1..Len(edges) : a # b => ~SameTriple(edges[a], edges[b])

\* C16. Edge triple uniqueness: when the document was empty at first, no edge
\* list, of an instance or of the document, ever holds two edges with the same
\* (source, target, type); addEdge of a triple that is present changes neither
\* the instance nor the document; addEdge of a triple that is absent, also one
\* that differs from a present edge in its type only, appends the edge.
C16_EdgeTripleUniqueness ==
    /\ audit.fromEmpty =>
         /\ NoTripleTwice(doc.edges)
         /\ \A i \in Instances : NoTripleTwice(stores[i].edges)
    /\ (lastOp.op = "addEdge"
          /\ \E k \in 1..Len(lastOp.before.edges) :
                SameTriple(lastOp.before.edges[k], lastOp.arg))
       => (Memory(lastOp.inst) = lastOp.before /\ doc = lastOp.docBefore)
    /\ (lastOp.op = "addEdge"
          /\ \A k \in 1..Len(lastOp.before.edges) :
                ~SameTriple(lastOp.before.edges[k], lastOp.arg))
       => /\ stores[lastOp.inst].edges = Append(lastOp.before.edges, lastOp.arg)
          /\ stores[lastOp.inst].nodes = lastOp.before.nodes

\* C16 witness: in a store that started empty, addEdge has appended an edge that
\* differs from a present one in its type only
C16_Witness ==
    /\ audit.fromEmpty
    /\ lastOp.op = "addEdge"
    /\ Len(stores[lastOp.inst].edges) = Len(lastOp.before.edges) + 1
    /\ \E k \in 1..Len(lastOp.before.edges) :
          /\ lastOp.before.edges[k].source = lastOp.arg.source
          /\ lastOp.before.edges[k].target = lastOp.arg.target
          /\ lastOp.before.edges[k].type # lastOp.arg.type

\* The ids of the nodes that repository r owns (their metadata names it) in the
\* graph the last operation started from
OwnedIdsBefore(r) ==
    { lastOp.before.nodes[k].value.id :
        k \in { n \in 1..Len(lastOp.before.nodes) :
                  /\ lastOp.before.nodes[n].value.metadata.defined
                  /\ lastOp.before.nodes[n].value.metadata.repoId = r } }

\* C17. Cascading removal: after removeNodesByRepoId(r) the graph has no node
\* whose metadata names r and no edge whose source or target is a removed
\* node; the other nodes, and the edges that touch no removed node, are all
\* there, unchanged and in their order, and the document holds the same.
C17_CascadingRemoval ==
    lastOp.op = "removeNodesByRepoId" =>
      LET removedIds == OwnedIdsBefore(lastOp.arg)
          notOwned(n) == ~(n.metadata.defined /\ n.metadata.repoId = lastOp.arg)
          untouched(e) == e.source \notin removedIds /\ e.target \notin removedIds
          after == GetGraph(Memory(lastOp.inst))
      IN  /\ \A k \in 1..Len(after.nodes) : notOwned(after.nodes[k])
          /\ \A k \in 1..Len(after.edges) : untouched(after.edges[k])
          /\ after.nodes = SelectSeq(GetGraph(lastOp.before).nodes, notOwned)
          /\ after.edges = SelectSeq(lastOp.before.edges, untouched)
          /\ doc.nodes = after.nodes /\ doc.edges = after.edges

\* C17 witness: a removal took a node away and with it edges that only led to
\* it, while a node and an edge of other repositories stayed
C17_Witness ==
    /\ lastOp.op = "removeNodesByRepoId"
    /\ OwnedIdsBefore(lastOp.arg) # {}
    /\ stores[lastOp.inst].nodes # <<>>
    /\ stores[lastOp.inst].edges # <<>>
    /\ \E k \in 1..Len(lastOp.before.edges) :
          /\ lastOp.before.edges[k].target \in OwnedIdsBefore(lastOp.arg)
          /\ lastOp.before.edges[k].source \notin OwnedIdsBefore(lastOp.arg)

\* C18. Dangling edges are skipped: the walker emits no hit for an id that is
\* no node of the graph.
C18_DanglingEdgesSkipped ==
    (Returned /\ locals.found)
    => \A h \in Range(locals.graphAffectedFiles) : HitId(h) \in DocNodeIds

\* Both contents were supplied, as `oldContent && newContent` reads it
BothContents == Truthy(locals.oldContent) /\ Truthy(locals.newContent)

\* C19. Diff echo: when the changed file resolved to a node, the result
\* carries the two contents as they were given if both were supplied, whether
\* the change was classified breaking or not, and no diff otherwise.
C19_DiffEcho ==
    (Returned /\ locals.found)
    => result.diff = IF BothContents
                     THEN [present |-> TRUE,
                           oldContent |-> locals.oldContent.text,
                           newContent |-> locals.newContent.text]
                     ELSE NoDiff

\* C20. Classifier skipped without contents: when oldContent or newContent is
\* absent, neither the classifier nor the scanner runs and the analysis
\* returns isBreaking = false, affectedFiles = [] and severity LOW, whatever
\* the walker found.
C20_ClassifierSkippedWithoutContents ==
    (Returned /\ ~BothContents)
    => /\ ~locals.ranClassifier /\ ~locals.ranScanner
       /\ locals.semanticAffectedFiles = <<>>
       /\ result.isBreaking = FALSE
       /\ result.affectedFiles = <<>>
       /\ result.severity = "LOW"

\* C20 witness: one content was supplied and the other was not, and the walker
\* had found importers in another repository
C20_Witness ==
    /\ Returned /\ locals.found
    /\ Truthy(locals.newContent) /\ ~locals.oldContent.defined
    /\ locals.graphAffectedFiles # <<>>
    /\ result.affectedFiles = <<>>

\* A call of the scanner has returned, and it got past the early return
Scanned == scanRun.pc = "done" /\ FunctionList(scanRun.changedFunctions) # <<>>

\* The id as processedFiles holds it
NormalizedId(id) == ToLowerCase(ToForwardSlashes(id))

\* C21. Scanner candidate set: the files the scanner opens are the FILE nodes
\* with a source-code extension whose repository (the id's part before the
\* colon) is not the source repository, the first 500 of them in node order,
\* each file once: none of the source repository, and every one of any other
\* repository, also of one whose id merely begins with the source repoId.
C21_ScannerCandidateSet ==
    Scanned =>
      LET nodes == GetGraph(LoadGraph(doc)).nodes
          isCandidate(n) == /\ n.type = "FILE"
                            /\ HasCodeExtension(n.id)
                            /\ SplitHead(n.id) # scanRun.sourceRepoId
          candidates == SelectSeq(nodes, isCandidate)
          capped == SubSeq(candidates, 1, Min(ScanLimit, Len(candidates)))
      IN  /\ { NormalizedId(f.id) : f \in Range(scanRun.opened) }
               = { NormalizedId(n.id) : n \in Range(capped) }
          /\ \A f \in Range(scanRun.opened) : f \in Range(capped)

\* The first line of lines that matches fn, 0 when none does
FirstMatch(lines, fn) ==
    IF \E i \in 1..Len(lines) : fn \in lines[i].uses
    THEN CHOOSE i \in 1..Len(lines) :
            /\ fn \in lines[i].uses
            /\ \A j \in 1..(i - 1) : fn \notin lines[j].uses
    ELSE 0

\* The hit is the one for identifier fn in the readable file of node f: at the
\* first matching line m, with lines max(1, m-2) .. min(last, m+2) numbered
\* from 1 and the marker on line m alone
IsFirstMatchHit(h, f, fn) ==
    LET at == DiskPath(SplitHead(f.id), SplitRest(f.id))
    IN  /\ at \in DOMAIN scanRun.disk
        /\ scanRun.disk[at].readable
        /\ h.repoId = SplitHead(f.id)
        /\ h.filePath = ToForwardSlashes(SplitRest(f.id))
        /\ h.reason = [kind |-> "Uses modified function", what |-> fn]
        /\ LET lines == scanRun.disk[at].lines
               m == FirstMatch(lines, fn)
               lo == Max(1, m - 2)
               hi == Min(Len(lines), m + 2)
           IN  /\ m # 0
               /\ Len(h.context) = hi - lo + 1
               /\ \A k \in 1..Len(h.context) :
                     h.context[k] = [marker |-> (lo + k - 1 = m), num |-> lo + k - 1,
                                     text |-> lines[lo + k - 1].text]

\* C22. One semantic hit per (file, identifier): every hit is the first-match
\* hit of an opened readable file and an identifier of three or more
\* characters, and no file has two hits for one identifier; files that are
\* missing or unreadable give none and the files after them are still scanned.
C22_OneHitPerFileAndIdentifier ==
    scanRun.pc = "done" =>
      /\ \A i, j \in 1..Len(scanRun.hits) :
            (i # j) => ~(/\ scanRun.hits[i].repoId = scanRun.hits[j].repoId
                         /\ scanRun.hits[i].filePath = scanRun.hits[j].filePath
                         /\ scanRun.hits[i].reason = scanRun.hits[j].reason)
      /\ \A h \in Range(scanRun.hits) :
            \E f \in Range(scanRun.opened), fn \in Range(FunctionList(scanRun.changedFunctions)) :
                Len(fn) >= 3 /\ IsFirstMatchHit(h, f, fn)
      /\ \A f \in Range(scanRun.opened), fn \in Range(FunctionList(scanRun.changedFunctions)) :
            LET at == DiskPath(SplitHead(f.id), SplitRest(f.id))
            IN  (at \in DOMAIN scanRun.disk /\ scanRun.disk[at].readable
                   /\ FirstMatch(scanRun.disk[at].lines, fn) # 0)
                => \E h \in Range(scanRun.hits) : IsFirstMatchHit(h, f, fn)

\* What invocation c returns when it runs alone on the document it loaded
AloneResult(c) ==
    AnalyzeFileChange(calls[c].loaded, calls[c].repoId, calls[c].filePath,
                      calls[c].oldContent, calls[c].newContent, calls[c].answer,
                      ConcurrentDisk).result

\* Every returned invocation has the result of a run alone on its own load
OwnReadDecides ==
    \A c \in CallIds : calls[c].pc = "returned" => calls[c].result = AloneResult(c)

\* A step of an invocation leaves the document's nodes and edges as they were
AnalysisWritesNothing ==
    (calls' # calls) => (doc'.nodes = doc.nodes /\ doc'.edges = doc.edges /\ doc' = doc)

\* C23. Analysis is read-only on the graph: every analyzeFileChange invocation
\* works on its own load of the graph and, whatever its outcome, no step of it
\* changes the persisted document; so what an invocation returns is what it
\* returns alone, whatever other invocations and the indexer do meanwhile.
C23_AnalysisReadOnly == []OwnReadDecides /\ [][AnalysisWritesNothing]_vars

\* C23 witness: an invocation found importers on the graph it had loaded and
\* returned after the indexer had rewritten the document, while the other
\* invocation, begun later on the rewritten document, has returned too
C23_Witness ==
    \E c, o \in CallIds :
        /\ c # o
        /\ calls[c].pc = "returned" /\ calls[o].pc = "returned"
        /\ calls[c].result # Rejected /\ calls[o].result # Rejected
        /\ calls[c].loaded # calls[c].atReturn
        /\ calls[o].loaded = calls[c].atReturn
        /\ calls[c].result.affectedFiles # <<>>
        /\ calls[c].result # calls[o].result
        /\ calls[c].repoId = calls[o].repoId
        /\ calls[c].oldContent = calls[o].oldContent
        /\ calls[c].answer = calls[o].answer

\* The analyses a push made of filePath
AnalysesOf(filePath) == { a \in Range(push.analyzed) : a.filePath = filePath }

\* The files for which a scan record, a report or an 'impact:detected'
\* notification was made
ReportedFiles ==
    { r.filePath : r \in Range(push.scans) \cup Range(push.reports) }
    \cup { e.filePath : e \in { x \in Range(push.emitted) : x.event = "impact:detected" } }

\* The files a payload lists as modified or added
ListedAsChanged(payload) ==
    UNION { Range(payload.commits[i].modified) \cup Range(payload.commits[i].added) :
              i \in 1..Len(payload.commits) }

\* C24. Webhook reporting gate: a scan record, a report or an
\* 'impact:detected' notification exists for a changed file only if its
\* analysis returned at least one affected file, so none exists for a change
\* classified non-breaking, a file not found in the graph or a file whose old
\* or new content was not obtained; and only files with a code extension that
\* a commit lists as modified or added are analyzed.
C24_WebhookReportingGate ==
    push # NoPush =>
      /\ \A f \in ReportedFiles :
            /\ AnalysesOf(f) # {}
            /\ \A a \in AnalysesOf(f) :
                  /\ a.impact # Rejected
                  /\ Len(a.impact.affectedFiles) >= 1
                  /\ a.impact.isBreaking
                  /\ a.found
                  /\ Truthy(a.oldContent) /\ Truthy(a.newContent)
      /\ \A a \in Range(push.analyzed) :
            /\ HasCodeExtension(a.filePath)
            /\ a.filePath \in ListedAsChanged(push.payload)

\* C24 witness: a push was processed in which one file was reported, another
\* was analyzed, not found and not reported, a file that is no code was
\* listed, and a file of the graph was listed as removed only
C24_Witness ==
    /\ push # NoPush /\ push.pc = "done"
    /\ push.reports # <<>> /\ push.scans # <<>>
    /\ \E a \in Range(push.analyzed) : ~a.found /\ a.filePath \notin ReportedFiles
    /\ \E f \in ListedAsChanged(push.payload) : ~HasCodeExtension(f)
    /\ \E i \in 1..Len(push.payload.commits) :
          \E f \in Range(push.payload.commits[i].removed) :
              /\ f \notin ListedAsChanged(push.payload)
              /\ NodeId(RepoA, f) \in DocNodeIds

\* The rows of project p that have one of the types
RowsOf(p, types) ==
    { i \in 1..Len(db.repos) : db.repos[i].projectId = p /\ db.repos[i].type \in types }

\* Every project with a client has a server; a client request that saw no
\* server of its project is answered 400 SERVER_REQUIRED without a repository;
\* a created repository is PENDING if it is a SERVER and UNTRACKED otherwise
ServerFirstInvariant ==
    /\ \A p \in Projects :
          RowsOf(p, {"WEB", "MOBILE"}) # {} => RowsOf(p, {"SERVER"}) # {}
    /\ \A r \in RequestIds :
          LET q == db.reqs[r]
              sawServer == \E i \in 1..Len(q.seen) :
                              q.seen[i].projectId = q.projectId /\ q.seen[i].type = "SERVER"
          IN  /\ (q.pc \in {"creating", "answered"} /\ q.type \in {"WEB", "MOBILE"}
                    /\ ~sawServer)
                 => (q.pc = "answered" /\ q.code = 400 /\ q.error = "SERVER_REQUIRED"
                       /\ q.repo = NoRepo)
              /\ (q.pc = "answered" /\ q.code = 200)
                 => /\ q.repo.type = q.type /\ q.repo.projectId = q.projectId
                    /\ q.repo.status = IF q.type = "SERVER" THEN "PENDING"
                                       ELSE "UNTRACKED"
                    /\ q.repo.id \in 1..Len(db.repos)
                    /\ db.repos[q.repo.id].type = q.type
                    /\ db.repos[q.repo.id].projectId = q.projectId

\* The step that rejects a request leaves the repository table as it was
RejectionCreatesNothing ==
    (\E r \in RequestIds : /\ db.reqs[r].error # "SERVER_REQUIRED"
                           /\ db'.reqs[r].error = "SERVER_REQUIRED")
    => db'.repos = db.repos

\* C25. Server-first invariant: a WEB or MOBILE repository asked for while its
\* project has no SERVER repository is answered with SERVER_REQUIRED and makes
\* no row; every project with a WEB or MOBILE repository has a SERVER
\* repository, however the addRepo requests interleave; and a repository is
\* created PENDING if it is a SERVER and UNTRACKED otherwise.
C25_ServerFirst == []ServerFirstInvariant /\ [][RejectionCreatesNothing]_vars

\* C25 witness: one project has a server and a client, and a client asked for
\* in the other project, which has a request for its server under way, was
\* answered with SERVER_REQUIRED
C25_Witness ==
    \E r, o \in RequestIds, p, q \in Projects :
        /\ r # o /\ p # q
        /\ RowsOf(p, {"SERVER"}) # {} /\ RowsOf(p, {"WEB", "MOBILE"}) # {}
        /\ RowsOf(q, RepoTypes) = {}
        /\ db.reqs[r].pc = "answered" /\ db.reqs[r].error = "SERVER_REQUIRED"
        /\ db.reqs[r].projectId = q
        /\ db.reqs[o].pc = "creating" /\ db.reqs[o].projectId = q
        /\ db.reqs[o].type = "SERVER"

====
